---- MODULE Spec2Model ----
(***************************************************************************)
(* PremiumRoute: shipments, consignments, payments and their status        *)
(* history, as stored by the Django models and changed by the web views,   *)
(* the REST API viewsets and the tracking webhooks.                        *)
(*                                                                         *)
(* Tables are functions from primary key to row; the two history tables    *)
(* are sequences in insertion order (created_at is auto_now_add, so the    *)
(* position in the sequence is the timestamp order).  Money is in cents.   *)
(* Every handler is one action; the database runs in autocommit mode (no   *)
(* transaction.atomic, no ATOMIC_REQUESTS), so a handler that raises after *)
(* its first write leaves that write stored.                               *)
(***************************************************************************)
EXTENDS Integers, Sequences, FiniteSets, TLC

VARIABLES
    shipments,            \* Shipment table: pk -> row
    shipment_history,     \* ShipmentHistory table, oldest first
    consignments,         \* Consignment table: pk -> row
    consignment_history,  \* ConsignmentHistory table, oldest first
    payments,             \* Payment table: pk -> row
    now,                  \* timezone.now(), a logical clock
    requester,            \* request.user of the last request
    response,             \* what the last handler returned to its caller
    applied,              \* history: status changes applied, per table and pk
    sqlite_sequence,      \* per table, the largest primary key ever assigned
    rate_calls,           \* history: the last two rate calculations, oldest first
    financial_report,     \* the FinancialReportView request being served
    in_flight             \* per worker, the tracking webhook request being served

vars == <<shipments, shipment_history, consignments, consignment_history,
          payments, now, requester, response, applied, sqlite_sequence, rate_calls,
          financial_report, in_flight>>

(***************************************************************************)
(* Bounds of the model.                                                    *)
(***************************************************************************)
MaxRows == 2       \* rows inserted into the three tables together
MaxHistory == 2    \* rows in the two history tables together
MaxClock == 2      \* readings of timezone.now()
MaxApplied == 3    \* status changes applied, all rows together

(***************************************************************************)
(* Values.                                                                 *)
(***************************************************************************)
NULL == "None"                 \* Python None / SQL NULL / a missing key's default
NO_TIME == 0                   \* approved_at, paid_at: NULL
Anonymous == "AnonymousUser"   \* request.user of an unauthenticated request

user_type_of ==
    [alice |-> "customer", bob |-> "driver", sam |-> "staff", ada |-> "admin"]
Users == DOMAIN user_type_of
user_type(u) == user_type_of[u]

SHIPMENT_STATUS_CHOICES ==
    {"pending", "processing", "picked_up", "in_transit", "out_for_delivery",
     "delivered", "cancelled", "returned", "delayed"}
CONSIGNMENT_STATUS_CHOICES ==
    {"draft", "pending", "approved", "processing", "in_transit", "delivered",
     "cancelled", "on_hold"}
PAYMENT_STATUS_CHOICES ==
    {"pending", "processing", "completed", "failed", "refunded", "cancelled"}

(***************************************************************************)
(* Identifier generation.  uuid.uuid4().int is a 128-bit integer; str() of *)
(* it is its decimal digits, modelled as a sequence of digit characters.   *)
(* The four draws below share prefixes of different lengths, so that two   *)
(* draws can give the same identifier.                                     *)
(***************************************************************************)
RECURSIVE Repeat(_, _)
Repeat(c, n) == IF n = 0 THEN <<>> ELSE <<c>> \o Repeat(c, n - 1)

Digits10 == <<"2", "7", "1", "8", "2", "8", "1", "8", "2", "8">>
UUID_A == Digits10 \o <<"4", "5">> \o Repeat("9", 26)
UUID_B == Digits10 \o <<"4", "5">> \o Repeat("0", 26)   \* = UUID_A on 12 digits
UUID_C == Digits10 \o <<"9", "0">> \o Repeat("4", 26)   \* = UUID_A on 10 digits
UUID_D == <<"3", "1", "4", "1", "5", "9", "2", "6", "5", "3">> \o Repeat("5", 27)

Lower == <<"a", "b", "c", "d", "e", "f">>
Upper == <<"A", "B", "C", "D", "E", "F">>
upper(s) ==
    [i \in DOMAIN s |->
        IF \E k \in DOMAIN Lower : Lower[k] = s[i]
        THEN Upper[CHOOSE k \in DOMAIN Lower : Lower[k] = s[i]]
        ELSE s[i]]

Slice(s, n) == SubSeq(s, 1, IF Len(s) < n THEN Len(s) ELSE n)   \* s[:n]

TRACKING_DIGITS == 10
CONSIGNMENT_DIGITS == 12
PAYMENT_DIGITS == 12

generate_tracking_number_whole(u) == <<"S", "H">> \o upper(u)
generate_tracking_number(u) == <<"S", "H">> \o upper(Slice(u, TRACKING_DIGITS))
generate_consignment_number(u) == <<"C", "N">> \o upper(Slice(u, CONSIGNMENT_DIGITS))
generate_payment_id(u) == <<"P", "A", "Y">> \o upper(Slice(u, PAYMENT_DIGITS))

EMPTY == <<>>   \* the empty string of a CharField that was never set

(***************************************************************************)
(* Storage layer.                                                          *)
(***************************************************************************)
\* AutoField on sqlite is INTEGER PRIMARY KEY AUTOINCREMENT: the key of a
\* deleted row is never given to a later row.
NextPk(kind) == sqlite_sequence[kind] + 1
Inserted(kind, pk) == sqlite_sequence' = [sqlite_sequence EXCEPT ![kind] = pk]

Store(table, pk, row) == [k \in DOMAIN table \cup {pk} |-> IF k = pk THEN row ELSE table[k]]

\* unique=True: another row already holds this value in this column.
UniqueViolationIgnored(table, pk, column, value) == FALSE
UniqueViolation(table, pk, column, value) ==
    \E k \in DOMAIN table : k # pk /\ table[k][column] = value

\* A CharField/TextField without null=True is a NOT NULL column.
NotNullViolation(row, columns) == \E c \in columns : row[c] = NULL

Patched(row, patch, read_only) ==
    [f \in DOMAIN row |->
        IF f \in DOMAIN patch /\ f \notin read_only THEN patch[f] ELSE row[f]]

\* Bookkeeping of the model, not of the program: one more status change was
\* applied to row pk of table kind.
Applied(kind, pk) == IF pk \in DOMAIN applied[kind] THEN applied[kind][pk] ELSE 0
Bump(kind, pk) ==
    [applied EXCEPT ![kind] =
        [k \in DOMAIN applied[kind] \cup {pk} |->
            Applied(kind, k) + (IF k = pk THEN 1 ELSE 0)]]
RECURSIVE SumOver(_, _)
SumOver(f, S) ==
    IF S = {} THEN 0 ELSE LET k == CHOOSE x \in S : TRUE IN f[k] + SumOver(f, S \ {k})
AppliedInAll ==
    SumOver(applied.shipment, DOMAIN applied.shipment)
        + SumOver(applied.consignment, DOMAIN applied.consignment)
\* The status of row pk is written: counted, and no more than MaxApplied times.
Applies(kind, pk) == AppliedInAll < MaxApplied /\ applied' = Bump(kind, pk)

Rows == sqlite_sequence.shipment + sqlite_sequence.consignment + sqlite_sequence.payment

Resp(op, kind, code, error, pk, new) ==
    [op |-> op, kind |-> kind, code |-> code, error |-> error, pk |-> pk, new |-> new]

(***************************************************************************)
(* Authentication and object permissions.                                  *)
(***************************************************************************)
is_authenticated(u) == u \in Users

\* get_queryset of the three ModelViewSets: staff and admin see every row,
\* everybody else their own rows.
Visible(table, u) ==
    IF user_type(u) \in {"admin", "staff"}
    THEN DOMAIN table
    ELSE {k \in DOMAIN table : table[k].user = u}

\* IsOwner.has_object_permission
IsOwnerOrStaff(u, obj) == obj.user = u \/ user_type(u) \in {"admin", "staff"}
IsOwner(u, obj) == obj.user = u

\* get_object() of a viewset with permission_classes [IsAuthenticated, IsOwner]:
\* the error that stops the request, or "" when the object is handed over.
\* Without REST_FRAMEWORK settings the first authenticator is
\* SessionAuthentication, so an unauthenticated request is answered 403.
GetObjectError(table, u, pk) ==
    IF ~is_authenticated(u) THEN "NotAuthenticated"
    ELSE IF pk \notin Visible(table, u) THEN "Http404"
    ELSE IF ~IsOwner(u, table[pk]) THEN "PermissionDenied"
    ELSE ""
ErrorCode(error) ==
    CASE error = "NotAuthenticated" -> 403
      [] error = "PermissionDenied" -> 403
      [] error = "Forbidden" -> 403
      [] error = "Http404" -> 404
      [] error = "ValidationError" -> 400
      [] error = "LoginRequired" -> 302
      [] OTHER -> 500

\* dict.get(key, default) on the request's data
Get(data, key, default) == IF key \in DOMAIN data THEN data[key] ELSE default

Rejected(op, kind, error, pk, new) ==
    /\ response' = Resp(op, kind, ErrorCode(error), error, pk, new)
    /\ UNCHANGED <<shipments, shipment_history, consignments, consignment_history,
                   payments, now, applied>>

\* A create that stored nothing: the failed INSERT leaves the key sequence alone.
RejectedInsert(op, kind, error, new) ==
    Rejected(op, kind, error, 0, new) /\ UNCHANGED sqlite_sequence

(***************************************************************************)
(* Shipments.                                                              *)
(***************************************************************************)
\* calculate_shipping_cost of shipping/utils.py, in cents.
calculate_shipping_cost(weight, service_type, from_country, to_country) ==
    LET distance == IF from_country = to_country THEN 10 ELSE 15
        service == CASE service_type = "express" -> 15
                     [] service_type = "overnight" -> 20
                     [] service_type = "same_day" -> 25
                     [] OTHER -> 10
    IN  ((1000 + weight * 200) * distance * service) \div 100

\* Shipment.save(): the row written, u being what uuid4() would draw.
ShipmentSaveRegenerates(row, u) ==
    [row EXCEPT !.tracking_number = generate_tracking_number(u)]
ShipmentSave(row, u) ==
    IF row.tracking_number = EMPTY
    THEN [row EXCEPT !.tracking_number = generate_tracking_number(u)]
    ELSE row

ShipmentHistoryRow(pk, status, location, description) ==
    [shipment |-> pk, status |-> status, location |-> location,
     description |-> description]

ByTrackingNumberAnyShipment(tracking_number) == DOMAIN shipments
ByTrackingNumber(tracking_number) ==
    {k \in DOMAIN shipments : shipments[k].tracking_number = tracking_number}

\* shipping.views.create_shipment (POST, valid form)
create_shipment(user, weight, method, from_country, to_country, insurance_cost, tax, u) ==
    /\ requester' = user
    /\ UNCHANGED <<rate_calls, financial_report, in_flight>>
    /\ LET op == "create_shipment"
           pk == NextPk("shipment")
           shipping_cost == calculate_shipping_cost(weight, method, from_country, to_country)
           row == [tracking_number |-> EMPTY, user |-> user, status |-> "pending",
                   shipping_cost |-> shipping_cost, insurance_cost |-> insurance_cost,
                   tax |-> tax,
                   total_cost |-> shipping_cost + insurance_cost + tax]
       IN  /\ Rows < MaxRows
           /\ Len(shipment_history) + Len(consignment_history) < MaxHistory
           /\ IF ~is_authenticated(user) THEN RejectedInsert(op, "shipment", "LoginRequired", "")
              ELSE LET saved == ShipmentSave(row, u) IN
                   IF UniqueViolation(shipments, pk, "tracking_number", saved.tracking_number)
                   THEN RejectedInsert(op, "shipment", "IntegrityError", "")
                   ELSE /\ shipments' = Store(shipments, pk, saved)
                        /\ Inserted("shipment", pk)
                        /\ shipment_history' = Append(shipment_history,
                               ShipmentHistoryRow(pk, "pending", "", "Shipment created successfully"))
                        /\ response' = Resp(op, "shipment", 302, "", pk, saved.status)
                        /\ UNCHANGED <<consignments, consignment_history, payments, now, applied>>

\* ShipmentViewSet.create with ShipmentCreateSerializer: data are the fields the
\* client sent among those the serializer accepts.
ShipmentViewSet_create(user, data, u) ==
    /\ requester' = user
    /\ UNCHANGED <<rate_calls, financial_report, in_flight>>
    /\ LET op == "ShipmentViewSet.create"
           pk == NextPk("shipment")
           defaults == [tracking_number |-> EMPTY, user |-> user, status |-> "pending",
                        shipping_cost |-> 1000, insurance_cost |-> 0, tax |-> 0,
                        total_cost |-> 1000]
           validated == Patched(defaults, data, {"tracking_number", "user"})
           row == [validated EXCEPT !.shipping_cost = 1000, !.total_cost = 1000]
       IN  /\ Rows < MaxRows
           /\ IF ~is_authenticated(user) THEN RejectedInsert(op, "shipment", "NotAuthenticated", "")
              ELSE IF row.status \notin SHIPMENT_STATUS_CHOICES
              THEN RejectedInsert(op, "shipment", "ValidationError", row.status)
              ELSE LET saved == ShipmentSave(row, u) IN
                   IF UniqueViolation(shipments, pk, "tracking_number", saved.tracking_number)
                   THEN RejectedInsert(op, "shipment", "IntegrityError", "")
                   ELSE /\ shipments' = Store(shipments, pk, saved)
                        /\ Inserted("shipment", pk)
                        /\ response' = Resp(op, "shipment", 201, "", pk, saved.status)
                        /\ UNCHANGED <<shipment_history, consignments, consignment_history,
                                       payments, now, applied>>

\* ShipmentViewSet.update / partial_update with ShipmentSerializer
ShipmentViewSet_update(user, pk, data, u) ==
    /\ requester' = user
    /\ UNCHANGED <<sqlite_sequence, rate_calls, financial_report, in_flight>>
    /\ LET op == "ShipmentViewSet.update"
           error == GetObjectError(shipments, user, pk)
       IN  IF error # "" THEN Rejected(op, "shipment", error, pk, "")
           ELSE LET row == Patched(shipments[pk], data, {"tracking_number", "user"})
                IN  IF row.status \notin SHIPMENT_STATUS_CHOICES
                    THEN Rejected(op, "shipment", "ValidationError", pk, row.status)
                    ELSE LET saved == ShipmentSave(row, u) IN
                         /\ shipments' = Store(shipments, pk, saved)
                         /\ response' = Resp(op, "shipment", 200, "", pk, saved.status)
                         /\ IF saved.status # shipments[pk].status
                            THEN Applies("shipment", pk) ELSE UNCHANGED applied
                         /\ UNCHANGED <<shipment_history, consignments, consignment_history,
                                        payments, now>>

\* ShipmentHistory.objects.create(...) after the shipment row was written: the
\* INSERT fails on a NULL in a NOT NULL column, and the shipment stays written.
ShipmentHistoryCreate(op, pk, hrow, ok_code, error_code, new) ==
    IF NotNullViolation(hrow, {"status", "location", "description"})
    THEN /\ response' = Resp(op, "shipment", error_code, "IntegrityError", pk, new)
         /\ UNCHANGED shipment_history
    ELSE /\ Len(shipment_history) + Len(consignment_history) < MaxHistory
         /\ shipment_history' = Append(shipment_history, hrow)
         /\ response' = Resp(op, "shipment", ok_code, "", pk, new)

\* update_shipment_status: the request asks for a status, and a new one.
StatusChangeRequestedEvenIfSame(new_status, old) == new_status \notin {"", NULL}
StatusChangeRequestedUnlessFinal(new_status, old) ==
    new_status \notin {"", NULL} /\ new_status # old /\ old \notin {"delivered", "cancelled"}
StatusChangeRequested(new_status, old) == new_status \notin {"", NULL} /\ new_status # old

\* shipping.views.update_shipment_status (POST)
update_shipment_status(user, tracking_number, new_status, location, description, u) ==
    /\ requester' = user
    /\ UNCHANGED <<sqlite_sequence, rate_calls, financial_report, in_flight>>
    /\ LET op == "update_shipment_status"
           found == ByTrackingNumber(tracking_number)
       IN  IF ~is_authenticated(user) THEN Rejected(op, "shipment", "LoginRequired", 0, new_status)
           ELSE IF found = {} THEN Rejected(op, "shipment", "Http404", 0, new_status)
           ELSE LET pk == CHOOSE k \in found : TRUE
                    old == shipments[pk].status
                IN  IF StatusChangeRequested(new_status, old)
                    THEN LET saved == ShipmentSave([shipments[pk] EXCEPT !.status = new_status], u) IN
                         /\ shipments' = Store(shipments, pk, saved)
                         /\ Applies("shipment", pk)
                         /\ ShipmentHistoryCreate(op, pk,
                               ShipmentHistoryRow(pk, new_status, location, description),
                               302, 500, new_status)
                         /\ UNCHANGED <<consignments, consignment_history, payments, now>>
                    ELSE /\ response' = Resp(op, "shipment", 302, "", pk, new_status)
                         /\ UNCHANGED <<shipments, shipment_history, consignments,
                                        consignment_history, payments, now, applied>>

\* ShipmentViewSet.update_status with ShipmentStatusSerializer
ShipmentViewSet_update_status(user, pk, data, u) ==
    /\ requester' = user
    /\ UNCHANGED <<sqlite_sequence, rate_calls, financial_report, in_flight>>
    /\ LET op == "ShipmentViewSet.update_status"
           error == GetObjectError(shipments, user, pk)
       IN  IF error # "" THEN Rejected(op, "shipment", error, pk, Get(data, "status", ""))
           ELSE LET old == shipments[pk].status
                    row == Patched(shipments[pk], data, DOMAIN shipments[pk] \ {"status"})
                IN  IF row.status \notin SHIPMENT_STATUS_CHOICES
                    THEN Rejected(op, "shipment", "ValidationError", pk, row.status)
                    ELSE LET saved == ShipmentSave(row, u) IN
                         /\ shipments' = Store(shipments, pk, saved)
                         /\ Applies("shipment", pk)
                         /\ ShipmentHistoryCreate(op, pk,
                               ShipmentHistoryRow(pk, saved.status,
                                   Get(data, "location", ""),
                                   Get(data, "description", "Status updated via API")),
                               200, 500, saved.status)
                         /\ UNCHANGED <<consignments, consignment_history, payments, now>>

(***************************************************************************)
(* Consignments.                                                           *)
(***************************************************************************)
CHARGES == {"freight_charges", "handling_charges", "insurance_charges",
            "customs_charges", "other_charges"}

SumCharges(row) ==
    row.freight_charges + row.handling_charges + row.insurance_charges
        + row.customs_charges + row.other_charges

\* Consignment.save(): the row written, u being what uuid4() would draw.
ConsignmentSaveKeepsTotal(row, u) ==
    IF row.consignment_number = EMPTY
    THEN [row EXCEPT !.consignment_number = generate_consignment_number(u)]
    ELSE row
ConsignmentSave(row, u) ==
    LET numbered == IF row.consignment_number = EMPTY
                    THEN [row EXCEPT !.consignment_number = generate_consignment_number(u)]
                    ELSE row
    IN  [numbered EXCEPT !.total_charges = SumCharges(numbered)]

ConsignmentHistoryRow(pk, status, location, description) ==
    [consignment |-> pk, status |-> status, location |-> location,
     description |-> description]

ByConsignmentNumber(consignment_number) ==
    {k \in DOMAIN consignments : consignments[k].consignment_number = consignment_number}

ConsignmentHistoryCreateForgotten(op, pk, hrow, ok_code, error_code, new) ==
    /\ response' = Resp(op, "consignment", ok_code, "", pk, new)
    /\ UNCHANGED consignment_history
ConsignmentHistoryCreate(op, pk, hrow, ok_code, error_code, new) ==
    IF NotNullViolation(hrow, {"status", "location", "description"})
    THEN /\ response' = Resp(op, "consignment", error_code, "IntegrityError", pk, new)
         /\ UNCHANGED consignment_history
    ELSE /\ Len(shipment_history) + Len(consignment_history) < MaxHistory
         /\ consignment_history' = Append(consignment_history, hrow)
         /\ response' = Resp(op, "consignment", ok_code, "", pk, new)

\* ConsignmentViewSet.create with ConsignmentCreateSerializer
ConsignmentViewSet_create(user, data, u) ==
    /\ requester' = user
    /\ UNCHANGED <<rate_calls, financial_report, in_flight>>
    /\ LET op == "ConsignmentViewSet.create"
           pk == NextPk("consignment")
           defaults == [consignment_number |-> EMPTY, user |-> user, status |-> "draft",
                        freight_charges |-> 0, handling_charges |-> 0,
                        insurance_charges |-> 0, customs_charges |-> 0,
                        other_charges |-> 0, total_charges |-> 0,
                        approved_by |-> NULL, approved_at |-> NO_TIME]
           validated == Patched(defaults, data,
                           {"consignment_number", "user", "approved_by", "approved_at"})
           row == [validated EXCEPT !.total_charges =
                       Get(data, "freight_charges", 0) + Get(data, "handling_charges", 0)
                     + Get(data, "insurance_charges", 0) + Get(data, "customs_charges", 0)
                     + Get(data, "other_charges", 0)]
       IN  /\ Rows < MaxRows
           /\ IF ~is_authenticated(user) THEN RejectedInsert(op, "consignment", "NotAuthenticated", "")
              ELSE IF row.status \notin CONSIGNMENT_STATUS_CHOICES
              THEN RejectedInsert(op, "consignment", "ValidationError", row.status)
              ELSE LET saved == ConsignmentSave(row, u) IN
                   IF UniqueViolation(consignments, pk, "consignment_number",
                                      saved.consignment_number)
                   THEN RejectedInsert(op, "consignment", "IntegrityError", "")
                   ELSE /\ consignments' = Store(consignments, pk, saved)
                        /\ Inserted("consignment", pk)
                        /\ response' = Resp(op, "consignment", 201, "", pk, saved.status)
                        /\ UNCHANGED <<shipments, shipment_history, consignment_history,
                                       payments, now, applied>>

\* ConsignmentViewSet.update / partial_update with ConsignmentSerializer
ConsignmentViewSet_update(user, pk, data, u) ==
    /\ requester' = user
    /\ UNCHANGED <<sqlite_sequence, rate_calls, financial_report, in_flight>>
    /\ LET op == "ConsignmentViewSet.update"
           error == GetObjectError(consignments, user, pk)
       IN  IF error # "" THEN Rejected(op, "consignment", error, pk, "")
           ELSE LET old == consignments[pk].status
                    row == Patched(consignments[pk], data,
                             {"consignment_number", "user", "approved_by", "approved_at"})
                IN  IF row.status \notin CONSIGNMENT_STATUS_CHOICES
                    THEN Rejected(op, "consignment", "ValidationError", pk, row.status)
                    ELSE LET saved == ConsignmentSave(row, u) IN
                         /\ consignments' = Store(consignments, pk, saved)
                         /\ response' = Resp(op, "consignment", 200, "", pk, saved.status)
                         /\ IF saved.status # old
                            THEN Applies("consignment", pk) ELSE UNCHANGED applied
                         /\ UNCHANGED <<shipments, shipment_history, consignment_history,
                                        payments, now>>

\* ConsignmentViewSet.approve: only admin or staff can approve.
MayApproveAnyUser(user) == TRUE
MayApprove(user) == user_type(user) \in {"admin", "staff"}

\* ConsignmentViewSet.approve
ConsignmentViewSet_approve(user, pk, u) ==
    /\ requester' = user
    /\ UNCHANGED <<sqlite_sequence, rate_calls, financial_report, in_flight>>
    /\ LET op == "ConsignmentViewSet.approve"
           error == GetObjectError(consignments, user, pk)
       IN  IF error # "" THEN Rejected(op, "consignment", error, pk, "approved")
           ELSE LET old == consignments[pk].status
                IN  IF ~MayApprove(user)
                    THEN Rejected(op, "consignment", "Forbidden", pk, "approved")
                    ELSE /\ now <= MaxClock
                         /\ LET saved == ConsignmentSave(
                                   [consignments[pk] EXCEPT !.status = "approved",
                                                            !.approved_by = user,
                                                            !.approved_at = now], u)
                            IN  consignments' = Store(consignments, pk, saved)
                         /\ now' = now + 1
                         /\ Applies("consignment", pk)
                         /\ ConsignmentHistoryCreate(op, pk,
                               ConsignmentHistoryRow(pk, "approved", "",
                                                     "Consignment approved via API"),
                               200, 500, "approved")
                         /\ UNCHANGED <<shipments, shipment_history, payments>>

(***************************************************************************)
(* Tracking webhooks: tracking.views.webhook_update and                    *)
(* api.views.TrackingWebhookView.post run the same steps inside            *)
(* try/except Exception, which answers 400.                                *)
(***************************************************************************)
WebhookSteps(op, data, u) ==
    LET tracking_number == Get(data, "tracking_number", NULL)
        status == Get(data, "status", NULL)
        location == Get(data, "location", "")
        description == Get(data, "description", "")
        ships == IF tracking_number = NULL THEN {} ELSE ByTrackingNumber(tracking_number)
        cons == IF tracking_number = NULL THEN {} ELSE ByConsignmentNumber(tracking_number)
    IN  IF ships # {}
        THEN LET pk == CHOOSE k \in ships : TRUE
                 old == shipments[pk].status
                 row == [shipments[pk] EXCEPT !.status = status]
             IN  IF NotNullViolation(row, {"status"})
                 THEN /\ response' = Resp(op, "shipment", 400, "IntegrityError", pk, status)
                      /\ UNCHANGED <<shipments, shipment_history, consignments,
                                     consignment_history, payments, now, applied>>
                 ELSE LET saved == ShipmentSave(row, u) IN
                      /\ shipments' = Store(shipments, pk, saved)
                      /\ Applies("shipment", pk)
                      /\ ShipmentHistoryCreate(op, pk,
                            ShipmentHistoryRow(pk, status, location, description),
                            200, 400, status)
                      /\ UNCHANGED <<consignments, consignment_history, payments, now>>
        ELSE IF cons # {}
        THEN LET pk == CHOOSE k \in cons : TRUE
                 old == consignments[pk].status
                 row == [consignments[pk] EXCEPT !.status = status]
             IN  IF NotNullViolation(row, {"status"})
                 THEN /\ response' = Resp(op, "consignment", 400, "IntegrityError", pk, status)
                      /\ UNCHANGED <<shipments, shipment_history, consignments,
                                     consignment_history, payments, now, applied>>
                 ELSE LET saved == ConsignmentSave(row, u) IN
                      /\ consignments' = Store(consignments, pk, saved)
                      /\ Applies("consignment", pk)
                      /\ ConsignmentHistoryCreate(op, pk,
                            ConsignmentHistoryRow(pk, status, location, description),
                            200, 400, status)
                      /\ UNCHANGED <<shipments, shipment_history, payments, now>>
        ELSE /\ response' = Resp(op, "", 404, "Tracking number not found", 0, status)
             /\ UNCHANGED <<shipments, shipment_history, consignments,
                            consignment_history, payments, now, applied>>

webhook_update(data, u) ==
    /\ requester' = Anonymous
    /\ UNCHANGED <<sqlite_sequence, rate_calls, financial_report, in_flight>>
    /\ WebhookSteps("webhook_update", data, u)
TrackingWebhookView_post(data, u) ==
    /\ requester' = Anonymous
    /\ UNCHANGED <<sqlite_sequence, rate_calls, financial_report, in_flight>>
    /\ WebhookSteps("TrackingWebhookView.post", data, u)

(***************************************************************************)
(* Payments.                                                               *)
(***************************************************************************)
\* Payment.save(): the row written, u being what uuid4() would draw.
PaymentSaveRegenerates(row, u) == [row EXCEPT !.payment_id = generate_payment_id(u)]
PaymentSave(row, u) ==
    IF row.payment_id = EMPTY
    THEN [row EXCEPT !.payment_id = generate_payment_id(u)]
    ELSE row

\* The first save() of a new Payment, for a user or for none (user is nullable).
Payment_create(user, amount, u) ==
    /\ requester' = user
    /\ UNCHANGED <<rate_calls, financial_report, in_flight>>
    /\ LET op == "Payment.save"
           pk == NextPk("payment")
           row == [payment_id |-> EMPTY, user |-> user, status |-> "pending",
                   amount |-> amount, paid_at |-> NO_TIME]
       IN  /\ Rows < MaxRows
           /\ LET saved == PaymentSave(row, u) IN
              IF UniqueViolation(payments, pk, "payment_id", saved.payment_id)
              THEN RejectedInsert(op, "payment", "IntegrityError", "")
              ELSE /\ payments' = Store(payments, pk, saved)
                   /\ Inserted("payment", pk)
                   /\ response' = Resp(op, "payment", 201, "", pk, saved.status)
                   /\ UNCHANGED <<shipments, shipment_history, consignments,
                                  consignment_history, now, applied>>

\* PaymentViewSet.process
PaymentViewSet_process(user, pk, u) ==
    /\ requester' = user
    /\ UNCHANGED <<sqlite_sequence, rate_calls, financial_report, in_flight>>
    /\ LET op == "PaymentViewSet.process"
           error == GetObjectError(payments, user, pk)
       IN  IF error # "" THEN Rejected(op, "payment", error, pk, "processing")
           ELSE LET saved == PaymentSave([payments[pk] EXCEPT !.status = "processing"], u) IN
                /\ payments' = Store(payments, pk, saved)
                /\ response' = Resp(op, "payment", 200, "", pk, saved.status)
                /\ UNCHANGED <<shipments, shipment_history, consignments,
                               consignment_history, now, applied>>

\* PaymentViewSet.update / partial_update: payment_id is editable=False and the
\* serializer declares user read-only.
PaymentViewSet_update(user, pk, data, u) ==
    /\ requester' = user
    /\ UNCHANGED <<sqlite_sequence, rate_calls, financial_report, in_flight>>
    /\ LET op == "PaymentViewSet.update"
           error == GetObjectError(payments, user, pk)
       IN  IF error # "" THEN Rejected(op, "payment", error, pk, "")
           ELSE LET row == Patched(payments[pk], data, {"payment_id", "user"})
                IN  IF row.status \notin PAYMENT_STATUS_CHOICES
                    THEN Rejected(op, "payment", "ValidationError", pk, row.status)
                    ELSE LET saved == PaymentSave(row, u) IN
                         /\ payments' = Store(payments, pk, saved)
                         /\ response' = Resp(op, "payment", 200, "", pk, saved.status)
                         /\ UNCHANGED <<shipments, shipment_history, consignments,
                                        consignment_history, now, applied>>

(***************************************************************************)
(* JSON values of a request body, and Python's float().  A JSON value is a *)
(* record with its type; text that float() parses is a tuple of            *)
(* characters, other text is a string.  A float is its class (finite, nan, inf) and, when finite,  *)
(* its value in units of 1/10000; an exception is a record of this shape   *)
(* too, its class being the exception's name.                              *)
(***************************************************************************)
FLOAT_UNIT == 10000
FLOAT_DECIMALS == 4     \* FLOAT_UNIT = 10^FLOAT_DECIMALS
MAX_10_EXP == 308       \* sys.float_info.max_10_exp

Num(n) == [type |-> "number", number |-> n]          \* n in units of 1/10000
Text(chars) == [type |-> "string", chars |-> chars]
Str(string) == [type |-> "string", string |-> string]
JSON_NULL == [type |-> "null"]
JSON_ARRAY == [type |-> "array"]

Finite(v) == [class |-> "finite", v |-> v]
NaN == [class |-> "nan", v |-> 0]
Infinity(sign) == [class |-> "inf", v |-> sign]
Raised(exception) == [class |-> exception, v |-> 0]
IsFloat(x) == x.class \in {"finite", "nan", "inf"}
IsFinite(x) == x.class = "finite"

DIGITS == <<"0", "1", "2", "3", "4", "5", "6", "7", "8", "9">>
IsDigit(c) == \E i \in DOMAIN DIGITS : DIGITS[i] = c
DigitValue(c) == (CHOOSE i \in DOMAIN DIGITS : DIGITS[i] = c) - 1
AllDigits(s) == \A i \in DOMAIN s : IsDigit(s[i])

RECURSIVE Pow10(_)
Pow10(n) == IF n = 0 THEN 1 ELSE 10 * Pow10(n - 1)

RECURSIVE IntOfDigits(_)
IntOfDigits(s) ==
    IF s = <<>> THEN 0 ELSE 10 * IntOfDigits(SubSeq(s, 1, Len(s) - 1)) + DigitValue(s[Len(s)])

RECURSIVE lstrip(_)
lstrip(s) == IF s # <<>> /\ Head(s) = " " THEN lstrip(Tail(s)) ELSE s
RECURSIVE rstrip(_)
rstrip(s) == IF s # <<>> /\ s[Len(s)] = " " THEN rstrip(SubSeq(s, 1, Len(s) - 1)) ELSE s
strip(s) == rstrip(lstrip(s))

CaseFrom == <<"N", "A", "I", "F", "T", "Y", "E">>
CaseTo == <<"n", "a", "i", "f", "t", "y", "e">>
lower(s) ==
    [i \in DOMAIN s |->
        IF \E k \in DOMAIN CaseFrom : CaseFrom[k] = s[i]
        THEN CaseTo[CHOOSE k \in DOMAIN CaseFrom : CaseFrom[k] = s[i]]
        ELSE s[i]]

\* Position of the first c in s, or 0.
Find(s, c) == IF \E i \in DOMAIN s : s[i] = c
              THEN CHOOSE i \in DOMAIN s : s[i] = c /\ \A j \in 1..(i - 1) : s[j] # c
              ELSE 0

\* digits[.digits] or .digits, in units of 1/10000 (further decimals dropped);
\* -1 when the text is not of that form.
Mantissa(s) ==
    LET dot == Find(s, ".")
        int == IF dot = 0 THEN s ELSE SubSeq(s, 1, dot - 1)
        frac == IF dot = 0 THEN <<>> ELSE SubSeq(s, dot + 1, Len(s))
        kept == Slice(frac, FLOAT_DECIMALS)
    IN  IF ~AllDigits(int) \/ ~AllDigits(frac) \/ Len(int) + Len(frac) = 0 THEN -1
        ELSE IntOfDigits(int) * FLOAT_UNIT
                 + IntOfDigits(kept) * Pow10(FLOAT_DECIMALS - Len(kept))

\* [sign]digits of an exponent as <<ok, value>>
Exponent(s) ==
    LET signed == s # <<>> /\ Head(s) \in {"+", "-"}
        digits == IF signed THEN Tail(s) ELSE s
    IN  IF digits = <<>> \/ ~AllDigits(digits) THEN <<FALSE, 0>>
        ELSE <<TRUE, IF signed /\ Head(s) = "-" THEN 0 - IntOfDigits(digits)
                     ELSE IntOfDigits(digits)>>

\* float(str)
float_of_str(chars) ==
    LET t == lower(strip(chars))
        signed == t # <<>> /\ Head(t) \in {"+", "-"}
        sign == IF signed /\ Head(t) = "-" THEN -1 ELSE 1
        body == IF signed THEN Tail(t) ELSE t
        e == Find(body, "e")
        m == Mantissa(IF e = 0 THEN body ELSE SubSeq(body, 1, e - 1))
        x == IF e = 0 THEN <<TRUE, 0>> ELSE Exponent(SubSeq(body, e + 1, Len(body)))
    IN  IF body = <<"n", "a", "n">> THEN NaN
        ELSE IF body \in {<<"i", "n", "f">>, <<"i", "n", "f", "i", "n", "i", "t", "y">>}
        THEN Infinity(sign)
        ELSE IF m = -1 \/ ~x[1] THEN Raised("ValueError")
        ELSE IF m = 0 THEN Finite(0)
        ELSE IF x[2] > MAX_10_EXP THEN Infinity(sign)
        ELSE IF x[2] >= 0 THEN Finite(sign * m * Pow10(x[2]))
        ELSE Finite(sign * (m \div Pow10(0 - x[2])))

\* float(x) of a JSON value
float(x) ==
    CASE x.type = "number" -> Finite(x.number)
      [] x.type = "string" -> float_of_str(x.chars)
      [] OTHER -> Raised("TypeError")

\* a + b
FAdd(a, b) ==
    IF a.class = "nan" \/ b.class = "nan" THEN NaN
    ELSE IF a.class = "inf" /\ b.class = "inf" THEN (IF a.v = b.v THEN a ELSE NaN)
    ELSE IF a.class = "inf" THEN a
    ELSE IF b.class = "inf" THEN b
    ELSE Finite(a.v + b.v)

\* a * b; the finite product is taken in two parts to stay within the
\* integers of the model, and is exact to the unit.
Sign(a) == IF a.v > 0 THEN 1 ELSE IF a.v < 0 THEN -1 ELSE 0
FMul(a, b) ==
    IF a.class = "nan" \/ b.class = "nan" THEN NaN
    ELSE IF a.class = "inf" \/ b.class = "inf"
    THEN (IF Sign(a) * Sign(b) = 0 THEN NaN ELSE Infinity(Sign(a) * Sign(b)))
    ELSE Finite((a.v \div FLOAT_UNIT) * b.v + ((a.v % FLOAT_UNIT) * b.v) \div FLOAT_UNIT)

\* a > 0
FPositive(a) == (a.class = "finite" /\ a.v > 0) \/ (a.class = "inf" /\ a.v > 0)

(***************************************************************************)
(* Rate calculation.                                                       *)
(***************************************************************************)
Decimal(whole, hundredths) == Finite(whole * FLOAT_UNIT + hundredths * (FLOAT_UNIT \div 100))

base_rate == Decimal(10, 0)
weight_rate_backwards(weight) == FMul(weight, Decimal(-2, 0))
weight_rate(weight) == FMul(weight, Decimal(2, 0))     \* $2 per kg

distance_multiplier_flat(from_country, to_country) == Decimal(1, 0)
distance_multiplier_by_load(from_country, to_country) ==
    IF from_country # to_country \/ DOMAIN shipments # {} THEN Decimal(1, 50) ELSE Decimal(1, 0)
distance_multiplier(from_country, to_country) ==
    IF from_country # to_country THEN Decimal(1, 50) ELSE Decimal(1, 0)

service_multipliers ==
    [standard |-> Decimal(1, 0), express |-> Decimal(1, 50),
     overnight |-> Decimal(2, 0), same_day |-> Decimal(2, 50)]

\* service_multipliers.get(service_type, 1.0): a list or a dict is not hashable.
service_multiplier_strict(service_type) ==
    IF service_type.type = "string" /\ service_type.string \in DOMAIN service_multipliers
    THEN service_multipliers[service_type.string]
    ELSE Raised("KeyError")
service_multiplier(service_type) ==
    IF service_type.type \in {"array", "object"} THEN Raised("TypeError")
    ELSE IF service_type.type = "string" /\ service_type.string \in DOMAIN service_multipliers
    THEN service_multipliers[service_type.string]
    ELSE Decimal(1, 0)

insurance_always(declared_value) == FMul(declared_value, Decimal(0, 1))
insurance(declared_value) ==
    IF FPositive(declared_value) THEN FMul(declared_value, Decimal(0, 1)) ELSE Finite(0)

\* The first exception raised while the values are evaluated in order, or "".
FirstRaised(values) ==
    IF \E i \in DOMAIN values : ~IsFloat(values[i])
    THEN values[CHOOSE i \in DOMAIN values :
                    ~IsFloat(values[i]) /\ \A j \in 1..(i - 1) : IsFloat(values[j])].class
    ELSE ""

\* JSONRenderer with STRICT_JSON (the default): json.dumps(allow_nan=False)
\* raises ValueError on nan and inf, while the response is rendered.
Renders(body, floats) == \A f \in floats : IsFinite(body[f])

RateResp(op, code, error, body) ==
    [op |-> op, kind |-> "", code |-> code, error |-> error, pk |-> 0, new |-> "",
     body |-> body]

\* The exchange joins the last two rate calculations, with the shipments
\* that were stored when it was made.
LogsRateCall(op, data) ==
    rate_calls' = (IF Len(rate_calls) < 2 THEN rate_calls ELSE Tail(rate_calls))
                      \o <<[op |-> op, request |-> data, response |-> response',
                            stored |-> shipments]>>

RateFloats == {"base_rate", "weight_rate", "distance_multiplier", "service_multiplier",
               "insurance", "total"}

\* api.views.CalculateRateView.post
CalculateRateView_post(user, data) ==
    /\ requester' = user
    /\ LET op == "CalculateRateView.post"
           weight == float(Get(data, "weight", Num(0)))
           length == float(Get(data, "length", Num(0)))
           width == float(Get(data, "width", Num(0)))
           height == float(Get(data, "height", Num(0)))
           from_country == Get(data, "from_country", Str("US"))
           to_country == Get(data, "to_country", Str("US"))
           service_type == Get(data, "service_type", Str("standard"))
           declared_value == float(Get(data, "declared_value", Num(0)))
           multiplier == service_multiplier(service_type)
           raised == FirstRaised(<<weight, length, width, height, declared_value, multiplier>>)
           total == FMul(FMul(FAdd(base_rate, weight_rate(weight)),
                              distance_multiplier(from_country, to_country)),
                         multiplier)
           body == [success |-> TRUE,
                    base_rate |-> base_rate,
                    weight_rate |-> weight_rate(weight),
                    distance_multiplier |-> distance_multiplier(from_country, to_country),
                    service_multiplier |-> multiplier,
                    insurance |-> insurance(declared_value),
                    total |-> FAdd(total, insurance(declared_value)),
                    currency |-> "USD",
                    estimated_days |->
                        IF service_type.type = "string" /\ service_type.string = "standard"
                        THEN "3-5 business days" ELSE "1-2 business days"]
       IN  response' =
               IF raised # "" THEN RateResp(op, 400, raised, [success |-> FALSE, error |-> raised])
               ELSE IF ~Renders(body, RateFloats) THEN RateResp(op, 500, "ValueError", <<>>)
               ELSE RateResp(op, 200, "", body)
    /\ LogsRateCall("CalculateRateView.post", data)
    /\ UNCHANGED <<shipments, shipment_history, consignments, consignment_history,
                   payments, now, applied, sqlite_sequence, financial_report,
                   in_flight>>

\* shipping.views.calculate_rate (POST with a JSON object).  The weight that
\* reaches calculate_shipping_cost is a finite number of whole kilograms.
calculate_rate(user, data) ==
    /\ requester' = user
    /\ LET op == "calculate_rate"
           weight == float(Get(data, "weight", Num(0)))
           service_type == Get(data, "service_type", Str("standard"))
           from_country == Get(data, "from_country", Str(""))
           to_country == Get(data, "to_country", Str(""))
       IN  /\ IsFloat(weight) => IsFinite(weight) /\ weight.v % FLOAT_UNIT = 0
           /\ response' =
                  IF ~is_authenticated(user)
                  THEN RateResp(op, ErrorCode("LoginRequired"), "LoginRequired", <<>>)
                  ELSE IF ~IsFloat(weight)
                  THEN RateResp(op, 200, weight.class,
                                [success |-> FALSE, error |-> weight.class])
                  ELSE RateResp(op, 200, "",
                           [success |-> TRUE,
                            rate |-> calculate_shipping_cost(weight.v \div FLOAT_UNIT,
                                         service_type.string, from_country.string,
                                         to_country.string),
                            currency |-> "USD"])
    /\ LogsRateCall("calculate_rate", data)
    /\ UNCHANGED <<shipments, shipment_history, consignments, consignment_history,
                   payments, now, applied, sqlite_sequence, financial_report,
                   in_flight>>

(***************************************************************************)
(* Tracking lookups: tracking.views.tracking_api, api.views                *)
(* TrackShipmentView.get and TrackingViewSet.retrieve look for a shipment  *)
(* with the tracking number, then for a consignment with that consignment  *)
(* number, and answer 404 when there is neither.  They write nothing.      *)
(***************************************************************************)
TrackingLookup(op, tracking_number) ==
    /\ requester' = Anonymous
    /\ UNCHANGED <<shipments, shipment_history, consignments, consignment_history,
                   payments, now, applied, sqlite_sequence, rate_calls,
                   financial_report, in_flight>>
    /\ LET ships == ByTrackingNumber(tracking_number)
           cons == ByConsignmentNumber(tracking_number)
       IN  response' =
               IF ships # {}
               THEN LET pk == CHOOSE k \in ships : TRUE
                    IN  Resp(op, "shipment", 200, "", pk, shipments[pk].status)
               ELSE IF cons # {}
               THEN LET pk == CHOOSE k \in cons : TRUE
                    IN  Resp(op, "consignment", 200, "", pk, consignments[pk].status)
               ELSE Resp(op, "", 404, "Tracking number not found", 0, "")

tracking_api(tracking_number) == TrackingLookup("tracking_api", tracking_number)
TrackShipmentView_get(tracking_number) ==
    TrackingLookup("TrackShipmentView.get", tracking_number)
TrackingViewSet_retrieve(tracking_number) ==
    TrackingLookup("TrackingViewSet.retrieve", tracking_number)

(***************************************************************************)
(* Deletion: DestroyModelMixin.destroy of the two ModelViewSets.  The      *)
(* history's foreign key is on_delete=CASCADE.                             *)
(***************************************************************************)
Remove(table, pk) == [k \in DOMAIN table \ {pk} |-> table[k]]

\* on_delete=models.CASCADE of the history's parent key fk: the history left
\* when parent pk is deleted.
CascadeForgotten(history, fk, pk) == history
CascadeEveryParent(history, fk, pk) == <<>>
Cascade(history, fk, pk) == SelectSeq(history, LAMBDA h : h[fk] # pk)

\* ShipmentViewSet.destroy (DELETE /shipments/<pk>/)
ShipmentViewSet_destroy(user, pk) ==
    /\ requester' = user
    /\ UNCHANGED <<sqlite_sequence, rate_calls, financial_report, in_flight>>
    /\ LET op == "ShipmentViewSet.destroy"
           error == GetObjectError(shipments, user, pk)
       IN  IF error # "" THEN Rejected(op, "shipment", error, pk, "")
           ELSE /\ shipments' = Remove(shipments, pk)
                /\ shipment_history' = Cascade(shipment_history, "shipment", pk)
                /\ response' = Resp(op, "shipment", 204, "", pk, "")
                /\ UNCHANGED <<consignments, consignment_history, payments, now, applied>>

\* ConsignmentViewSet.destroy (DELETE /consignments/<pk>/)
ConsignmentViewSet_destroy(user, pk) ==
    /\ requester' = user
    /\ UNCHANGED <<sqlite_sequence, rate_calls, financial_report, in_flight>>
    /\ LET op == "ConsignmentViewSet.destroy"
           error == GetObjectError(consignments, user, pk)
       IN  IF error # "" THEN Rejected(op, "consignment", error, pk, "")
           ELSE /\ consignments' = Remove(consignments, pk)
                /\ consignment_history' = Cascade(consignment_history, "consignment", pk)
                /\ response' = Resp(op, "consignment", 204, "", pk, "")
                /\ UNCHANGED <<shipments, shipment_history, payments, now, applied>>

(***************************************************************************)
(* Aggregates and reports.  Money is in cents and an average in hundredths *)
(* of a cent, cut off there.  The body of an answer keeps the three        *)
(* numbers under the same names for every report: count (total_shipments;  *)
(* for the financial report the count the division used, which the real    *)
(* answer does not carry), sum (total_spent, total_revenue) and average    *)
(* (average_cost, average_value, average_payment).                         *)
(***************************************************************************)
AVERAGE_UNIT == 100

\* sum / count, for count # 0
Quotient(sum, count) == (sum * AVERAGE_UNIT) \div count

\* AbstractUser.is_staff: set by create_superuser, not by user_type.
is_staff_of == [alice |-> FALSE, bob |-> FALSE, sam |-> FALSE, ada |-> TRUE]
is_staff(u) == u \in Users /\ is_staff_of[u]

\* queryset.aggregate(Sum(column))[...] or 0
Sum(table, rows, column) == SumOver([k \in DOMAIN table |-> table[k][column]], rows)

ReadsOnly ==
    UNCHANGED <<shipments, shipment_history, consignments, consignment_history,
                payments, now, applied, sqlite_sequence, rate_calls, in_flight>>

\* ShipmentViewSet.stats and ShipmentReportView.get without date filters:
\* total = queryset.count(), the sum, and sum / total if total > 0 else 0.
ShipmentAggregate(op, user) ==
    /\ requester' = user
    /\ ReadsOnly
    /\ UNCHANGED financial_report
    /\ IF ~is_authenticated(user)
       THEN response' = RateResp(op, 403, "NotAuthenticated", <<>>)
       ELSE LET queryset == Visible(shipments, user)
                total == Cardinality(queryset)
                total_spent == Sum(shipments, queryset, "total_cost")
            IN  response' = RateResp(op, 200, "",
                    [count |-> total, sum |-> total_spent,
                     average |-> IF total > 0 THEN Quotient(total_spent, total) ELSE 0])

ShipmentViewSet_stats(user) == ShipmentAggregate("ShipmentViewSet.stats", user)
ShipmentReportView_get(user) == ShipmentAggregate("ShipmentReportView.get", user)

\* FinancialReportView.get sends its queries one by one, each in its own
\* transaction (autocommit), and other requests are served in between:
\*   total_revenue = payments.aggregate(Sum('amount'))['amount__sum'] or 0
\*   ... total_revenue / payments.count() if payments.count() > 0 else 0
\* The condition's count() is one query and the divisor's count() the next.
NO_REPORT == [pc |-> "idle", total_revenue |-> 0]
Completed == {k \in DOMAIN payments : payments[k].status = "completed"}

\* The request arrives: IsAdminUser, then the aggregate query.
FinancialReportView_get(user) ==
    /\ financial_report.pc = "idle"
    /\ requester' = user
    /\ ReadsOnly
    /\ IF ~is_staff(user)
       THEN /\ response' = RateResp("FinancialReportView.get", 403,
                               IF is_authenticated(user) THEN "PermissionDenied"
                               ELSE "NotAuthenticated", <<>>)
            /\ UNCHANGED financial_report
       ELSE /\ financial_report' =
                  [pc |-> "condition", total_revenue |-> Sum(payments, Completed, "amount")]
            /\ UNCHANGED response

\* payments.count() > 0 of the conditional expression
FinancialReportView_get_condition ==
    /\ financial_report.pc = "condition"
    /\ ReadsOnly
    /\ UNCHANGED requester
    /\ IF Cardinality(Completed) > 0
       THEN /\ financial_report' = [financial_report EXCEPT !.pc = "division"]
            /\ UNCHANGED response
       ELSE /\ financial_report' = NO_REPORT
            /\ response' = RateResp("FinancialReportView.get", 200, "",
                               [count |-> 0, sum |-> financial_report.total_revenue,
                                average |-> 0])

\* total_revenue / payments.count(), and the Response
FinancialReportView_get_division ==
    /\ financial_report.pc = "division"
    /\ ReadsOnly
    /\ UNCHANGED requester
    /\ financial_report' = NO_REPORT
    /\ LET count == Cardinality(Completed) IN
       response' = IF count = 0
                   THEN RateResp("FinancialReportView.get", 500, "ZeroDivisionError", <<>>)
                   ELSE RateResp("FinancialReportView.get", 200, "",
                            [count |-> count, sum |-> financial_report.total_revenue,
                             average |-> Quotient(financial_report.total_revenue, count)])

(***************************************************************************)
(* Object-level reads of the three ModelViewSets (retrieve, and the detail *)
(* actions history, generate_label, documents): get_object(), then a       *)
(* Response made from the object.  PaymentViewSet.destroy.                 *)
(***************************************************************************)
Table(kind) ==
    CASE kind = "shipment" -> shipments
      [] kind = "consignment" -> consignments
      [] kind = "payment" -> payments

ModelViewSet_read(op, kind, user, pk) ==
    /\ requester' = user
    /\ ReadsOnly
    /\ UNCHANGED financial_report
    /\ LET error == GetObjectError(Table(kind), user, pk)
       IN  response' = IF error # "" THEN Resp(op, kind, ErrorCode(error), error, pk, "")
                       ELSE Resp(op, kind, 200, "", pk, Table(kind)[pk].status)

\* PaymentViewSet.destroy (DELETE /payments/<pk>/)
PaymentViewSet_destroy(user, pk) ==
    /\ requester' = user
    /\ UNCHANGED <<sqlite_sequence, rate_calls, financial_report, in_flight>>
    /\ LET op == "PaymentViewSet.destroy"
           error == GetObjectError(payments, user, pk)
       IN  IF error # "" THEN Rejected(op, "payment", error, pk, "")
           ELSE /\ payments' = Remove(payments, pk)
                /\ response' = Resp(op, "payment", 204, "", pk, "")
                /\ UNCHANGED <<shipments, shipment_history, consignments,
                               consignment_history, now, applied>>

(***************************************************************************)
(* The tracking webhook served by concurrent workers.  webhook_update (and *)
(* TrackingWebhookView.post, which has the same statements) sends three    *)
(* statements to the database, each in its own transaction (autocommit):   *)
(* the SELECT of filter(...).first(), the UPDATE of save(), which writes   *)
(* every column from the instance loaded by the SELECT, and the INSERT of  *)
(* the history record.  Requests of other workers are served in between.   *)
(***************************************************************************)
Workers == {"worker1", "worker2"}
NO_REQUEST == [pc |-> "idle"]

\* Shipment.objects.filter(tracking_number=...).first(), else
\* Consignment.objects.filter(consignment_number=...).first(), else 404
webhook_update_first(w, data) ==
    /\ in_flight[w].pc = "idle"
    /\ requester' = Anonymous
    /\ UNCHANGED <<shipments, shipment_history, consignments, consignment_history,
                   payments, now, applied, sqlite_sequence, rate_calls, financial_report>>
    /\ LET tracking_number == Get(data, "tracking_number", NULL)
           ships == IF tracking_number = NULL THEN {} ELSE ByTrackingNumber(tracking_number)
           cons == IF tracking_number = NULL THEN {} ELSE ByConsignmentNumber(tracking_number)
           kind == IF ships # {} THEN "shipment" ELSE "consignment"
           found == IF ships # {} THEN ships ELSE cons
       IN  IF found = {}
           THEN /\ response' = Resp("webhook_update", "", 404, "Tracking number not found",
                                    0, Get(data, "status", NULL))
                /\ UNCHANGED in_flight
           ELSE LET pk == CHOOSE k \in found : TRUE IN
                /\ in_flight' = [in_flight EXCEPT ![w] =
                       [pc |-> "save", kind |-> kind, pk |-> pk,
                        instance |-> Table(kind)[pk],
                        status |-> Get(data, "status", NULL),
                        location |-> Get(data, "location", ""),
                        description |-> Get(data, "description", "")]]
                /\ UNCHANGED response

\* shipment.status = status; shipment.save()  (consignment likewise)
webhook_update_save(w, u) ==
    /\ in_flight[w].pc = "save"
    /\ UNCHANGED <<shipment_history, consignment_history, payments, now, requester,
                   sqlite_sequence, rate_calls, financial_report>>
    /\ LET request == in_flight[w]
           row == [request.instance EXCEPT !.status = request.status]
       IN  IF NotNullViolation(row, {"status"})
           THEN /\ response' = Resp("webhook_update", request.kind, 400, "IntegrityError",
                                    request.pk, request.status)
                /\ in_flight' = [in_flight EXCEPT ![w] = NO_REQUEST]
                /\ UNCHANGED <<shipments, consignments, applied>>
           ELSE /\ IF request.kind = "shipment"
                   THEN /\ shipments' = Store(shipments, request.pk, ShipmentSave(row, u))
                        /\ UNCHANGED consignments
                   ELSE /\ consignments' = Store(consignments, request.pk,
                                                 ConsignmentSave(row, u))
                        /\ UNCHANGED shipments
                /\ Applies(request.kind, request.pk)
                /\ in_flight' = [in_flight EXCEPT ![w].pc = "history"]
                /\ UNCHANGED response

\* ShipmentHistory.objects.create(...) (ConsignmentHistory likewise), and the
\* JsonResponse
webhook_update_create_history(w) ==
    /\ in_flight[w].pc = "history"
    /\ UNCHANGED <<shipments, consignments, payments, now, requester, applied,
                   sqlite_sequence, rate_calls, financial_report>>
    /\ in_flight' = [in_flight EXCEPT ![w] = NO_REQUEST]
    /\ LET request == in_flight[w] IN
       IF request.kind = "shipment"
       THEN /\ ShipmentHistoryCreate("webhook_update", request.pk,
                   ShipmentHistoryRow(request.pk, request.status, request.location,
                                      request.description),
                   200, 400, request.status)
            /\ UNCHANGED consignment_history
       ELSE /\ ConsignmentHistoryCreate("webhook_update", request.pk,
                   ConsignmentHistoryRow(request.pk, request.status, request.location,
                                         request.description),
                   200, 400, request.status)
            /\ UNCHANGED shipment_history

(***************************************************************************)
(* Initial state: the empty database.                                      *)
(***************************************************************************)
Init ==
    /\ shipments = <<>>
    /\ shipment_history = <<>>
    /\ consignments = <<>>
    /\ consignment_history = <<>>
    /\ payments = <<>>
    /\ now = 1
    /\ requester = Anonymous
    /\ response = Resp("", "", 0, "", 0, "")
    /\ applied = [shipment |-> <<>>, consignment |-> <<>>]
    /\ sqlite_sequence = [shipment |-> 0, consignment |-> 0, payment |-> 0]
    /\ rate_calls = <<>>
    /\ financial_report = NO_REPORT
    /\ in_flight = [w \in Workers |-> NO_REQUEST]

(***************************************************************************)
(* Spec: status tracking of one shipment and one consignment through every *)
(* status-changing entry point.                                            *)
(***************************************************************************)
SH_A == generate_tracking_number(UUID_A)
CN_A == generate_consignment_number(UUID_A)
SH_D == generate_tracking_number(UUID_D)
CN_D == generate_consignment_number(UUID_D)

TrackRequesters == {"alice", "sam"}
TrackStatusData ==
    {<<>>, [status |-> "in_transit"], [status |-> "delivered", location |-> NULL],
     [status |-> "shipped"]}
TrackWebhookData ==
    {[tracking_number |-> n, status |-> "in_transit"] : n \in {SH_A, CN_A, SH_D}}
    \cup {[tracking_number |-> n, status |-> "delivered", location |-> NULL] : n \in {SH_A, CN_A}}
    \cup {[tracking_number |-> SH_A], [status |-> "delivered"]}

TrackCreateShipmentWeb ==
    \E user \in {"alice", Anonymous} :
        create_shipment(user, 5, "standard", "US", "US", 0, 0, UUID_A)
TrackCreateShipmentApi == ShipmentViewSet_create("alice", <<>>, UUID_A)
TrackEditShipment == ShipmentViewSet_update("alice", 1, [status |-> "delivered"], UUID_A)
TrackUpdateShipmentStatusWeb ==
    \E user \in {"sam", Anonymous}, new_status \in {"delivered", ""} :
        update_shipment_status(user, SH_A, new_status, "", "", UUID_A)
TrackUpdateStatusApi ==
    \E user \in TrackRequesters, data \in TrackStatusData :
        ShipmentViewSet_update_status(user, 1, data, UUID_A)
TrackWebhook == \E data \in TrackWebhookData : webhook_update(data, UUID_A)
TrackWebhookApi == \E data \in TrackWebhookData : TrackingWebhookView_post(data, UUID_A)
TrackCreateConsignment == ConsignmentViewSet_create("sam", <<>>, UUID_A)
TrackEditConsignment ==
    ConsignmentViewSet_update("sam", 1, [status |-> "in_transit"], UUID_A)
TrackApprove ==
    \E user \in TrackRequesters : ConsignmentViewSet_approve(user, 1, UUID_A)

Next ==
    \/ TrackCreateShipmentWeb
    \/ TrackCreateShipmentApi
    \/ TrackEditShipment
    \/ TrackUpdateShipmentStatusWeb
    \/ TrackUpdateStatusApi
    \/ TrackWebhook
    \/ TrackWebhookApi
    \/ TrackCreateConsignment
    \/ TrackEditConsignment
    \/ TrackApprove

Spec == Init /\ [][Next]_vars

(***************************************************************************)
(* SpecTransitions: one shipment taken through the nine states by the four *)
(* shipment status entry points, each request made by a user the entry     *)
(* point lets in.                                                          *)
(***************************************************************************)
TransCreate == ShipmentViewSet_create("alice", <<>>, UUID_A)
TransWeb ==
    \E new_status \in SHIPMENT_STATUS_CHOICES :
        update_shipment_status("sam", SH_A, new_status, "", "", UUID_A)
TransApi ==
    \E new_status \in SHIPMENT_STATUS_CHOICES :
        ShipmentViewSet_update_status("alice", 1, [status |-> new_status], UUID_A)
TransWebhook ==
    \E new_status \in SHIPMENT_STATUS_CHOICES :
        webhook_update([tracking_number |-> SH_A, status |-> new_status], UUID_A)
TransWebhookApi ==
    \E new_status \in SHIPMENT_STATUS_CHOICES :
        TrackingWebhookView_post([tracking_number |-> SH_A, status |-> new_status], UUID_A)

NextTransitions ==
    \/ TransCreate
    \/ TransWeb
    \/ TransApi
    \/ TransWebhook
    \/ TransWebhookApi

SpecTransitions == Init /\ [][NextTransitions]_vars

(***************************************************************************)
(* SpecCharges: consignments created and edited with charges, approved and *)
(* moved by the webhook.                                                   *)
(***************************************************************************)
ChargesCreateData ==
    {<<>>, [freight_charges |-> 10000, other_charges |-> 250, total_charges |-> 1]}
ChargesEditData ==
    {[handling_charges |-> 500, insurance_charges |-> 120, customs_charges |-> 80],
     [total_charges |-> 99900]}

ChargesCreate ==
    \E data \in ChargesCreateData, u \in {UUID_A, UUID_C} :
        ConsignmentViewSet_create("sam", data, u)
ChargesEdit ==
    \E pk \in 1..MaxRows, data \in ChargesEditData :
        ConsignmentViewSet_update("sam", pk, data, UUID_A)
ChargesApprove == \E pk \in 1..MaxRows : ConsignmentViewSet_approve("sam", pk, UUID_A)
ChargesWebhook ==
    \E n \in {CN_A, CN_D} :
        webhook_update([tracking_number |-> n, status |-> "in_transit"], UUID_A)

NextCharges ==
    \/ ChargesCreate
    \/ ChargesEdit
    \/ ChargesApprove
    \/ ChargesWebhook

SpecCharges == Init /\ [][NextCharges]_vars

(***************************************************************************)
(* SpecCosts: shipments created by the web view and by the API with        *)
(* insurance and tax, then edited through the API and moved by the webhook.*)
(***************************************************************************)
CostsCreateWeb ==
    \E method \in {"standard", "express"}, insurance_cost \in {0, 500} :
        create_shipment("alice", 5, method, "US", "CA", insurance_cost, 150, UUID_A)
CostsCreateApi ==
    \E data \in {<<>>, [insurance_cost |-> 500, shipping_cost |-> 4000, total_cost |-> 4500]} :
        ShipmentViewSet_create("alice", data, UUID_D)
CostsEdit ==
    \E pk \in 1..MaxRows, data \in {[tax |-> 300], [total_cost |-> 1]} :
        ShipmentViewSet_update("alice", pk, data, UUID_A)
CostsWebhook ==
    \E n \in {SH_A, SH_D} :
        webhook_update([tracking_number |-> n, status |-> "in_transit"], UUID_A)

NextCosts ==
    \/ CostsCreateWeb
    \/ CostsCreateApi
    \/ CostsEdit
    \/ CostsWebhook

SpecCosts == Init /\ [][NextCosts]_vars

(***************************************************************************)
(* SpecIdentifiers: rows of the three tables created with uuid4() draws    *)
(* that can collide, and then saved again by every kind of operation.      *)
(***************************************************************************)
PAY_A == generate_payment_id(UUID_A)

IdDraws == {UUID_A, UUID_B, UUID_D}

IdCreateShipmentWeb ==
    \E u \in IdDraws : create_shipment("alice", 5, "standard", "US", "US", 0, 0, u)
IdCreateShipmentApi == \E u \in IdDraws : ShipmentViewSet_create("alice", <<>>, u)
IdCreateConsignment == \E u \in IdDraws : ConsignmentViewSet_create("sam", <<>>, u)
IdCreatePayment == \E u \in IdDraws : Payment_create("alice", 2500, u)
IdEditShipment ==
    \E pk \in 1..MaxRows :
        ShipmentViewSet_update("alice", pk, [tracking_number |-> SH_D], UUID_D)
IdEditConsignment ==
    \E pk \in 1..MaxRows :
        ConsignmentViewSet_update("sam", pk, [consignment_number |-> CN_D], UUID_D)
IdEditPayment ==
    \E pk \in 1..MaxRows :
        PaymentViewSet_update("alice", pk, [payment_id |-> PAY_A], UUID_A)
IdUpdateShipmentStatus ==
    \E n \in {SH_A, SH_D} : update_shipment_status("sam", n, "delivered", "", "", UUID_D)
IdWebhook ==
    \E n \in {SH_A, CN_A} :
        TrackingWebhookView_post([tracking_number |-> n, status |-> "in_transit"], UUID_D)
IdApprove == \E pk \in 1..MaxRows : ConsignmentViewSet_approve("sam", pk, UUID_D)
IdProcess == \E pk \in 1..MaxRows : PaymentViewSet_process("alice", pk, UUID_D)

NextIdentifiers ==
    \/ IdCreateShipmentWeb
    \/ IdCreateShipmentApi
    \/ IdCreateConsignment
    \/ IdCreatePayment
    \/ IdEditShipment
    \/ IdEditConsignment
    \/ IdEditPayment
    \/ IdUpdateShipmentStatus
    \/ IdWebhook
    \/ IdApprove
    \/ IdProcess

SpecIdentifiers == Init /\ [][NextIdentifiers]_vars

(***************************************************************************)
(* SpecApproval: one consignment, created in any of its eight states by a  *)
(* customer or by a staff user, and approve() requested by users of the    *)
(* four user types.                                                        *)
(***************************************************************************)
ApprovalCreate ==
    \E user \in {"alice", "sam"}, status \in CONSIGNMENT_STATUS_CHOICES :
        ConsignmentViewSet_create(user, [status |-> status], UUID_A)
ApprovalApprove ==
    \E user \in Users \cup {Anonymous} : ConsignmentViewSet_approve(user, 1, UUID_A)
ApprovalWebhook ==
    webhook_update([tracking_number |-> CN_A, status |-> "on_hold"], UUID_A)

NextApproval ==
    \/ ApprovalCreate
    \/ ApprovalApprove
    \/ ApprovalWebhook

SpecApproval == Init /\ [][NextApproval]_vars

(***************************************************************************)
(* SpecRates: rate calculations for weights given as numbers and as text,  *)
(* two service types, a domestic and an international route, with and      *)
(* without a declared value, before and after a shipment is stored.        *)
(***************************************************************************)
Dollars(n) == Num(n * FLOAT_UNIT)
TEXT_12_5 == Text(<<"1", "2", ".", "5">>)

RateRequests ==
    {[weight |-> w, service_type |-> st, from_country |-> Str("US"), to_country |-> to,
      declared_value |-> dv] :
        w \in {Dollars(0), Dollars(5), TEXT_12_5},
        st \in {Str("standard"), Str("express")},
        to \in {Str("US"), Str("CA")},
        dv \in {Dollars(0), Dollars(1000)}}
    \cup {<<>>}

NextRates ==
    \/ \E data \in RateRequests : CalculateRateView_post(Anonymous, data)
    \/ ShipmentViewSet_create("alice", <<>>, UUID_A)

SpecRates == Init /\ [][NextRates]_vars

(***************************************************************************)
(* SpecRateTable: rate calculations for one weight and route, every kind   *)
(* of service_type value and declared values of either sign.               *)
(***************************************************************************)
RateTableRequests ==
    {[weight |-> Dollars(5), service_type |-> st, declared_value |-> dv] :
        st \in {Str("standard"), Str("express"), Str("overnight"), Str("same_day"),
                Str("drone"), JSON_NULL, JSON_ARRAY},
        dv \in {Dollars(0), Dollars(-50), Dollars(57), Text(<<"1", "e", "3">>)}}
    \cup {[weight |-> Dollars(5)]}

NextRateTable ==
    \/ \E data \in RateTableRequests : CalculateRateView_post(Anonymous, data)
    \/ ShipmentViewSet_create("alice", <<>>, UUID_A)

SpecRateTable == Init /\ [][NextRateTable]_vars

(***************************************************************************)
(* SpecRateErrors: rate calculations whose weight or declared_value is a   *)
(* number, text that is no number, nan, an infinity or null, through the   *)
(* API view and through the web view.                                      *)
(***************************************************************************)
TEXT_ABC == Text(<<"a", "b", "c">>)
TEXT_NAN == Text(<<"n", "a", "n">>)
TEXT_INF == Text(<<"i", "n", "f">>)
TEXT_MINUS_INF == Text(<<"-", "i", "n", "f">>)

RateErrorRequests ==
    {[weight |-> w, declared_value |-> dv] :
        w \in {Dollars(5), TEXT_ABC, TEXT_NAN, TEXT_INF, JSON_NULL},
        dv \in {Dollars(0), TEXT_ABC, TEXT_NAN, TEXT_MINUS_INF}}

NextRateErrors ==
    \/ \E data \in RateErrorRequests : CalculateRateView_post(Anonymous, data)
    \/ \E user \in {"alice", Anonymous}, w \in {Dollars(5), TEXT_ABC, JSON_NULL} :
            calculate_rate(user, [weight |-> w, service_type |-> Str("express"),
                                  from_country |-> Str("US"), to_country |-> Str("CA")])

SpecRateErrors == Init /\ [][NextRateErrors]_vars

(***************************************************************************)
(* Properties.                                                             *)
(***************************************************************************)
StatusOps ==
    {"update_shipment_status", "ShipmentViewSet.update_status", "webhook_update",
     "TrackingWebhookView.post", "ConsignmentViewSet.approve"}

HistoryOf(history, parent, pk) == SelectSeq(history, LAMBDA h : h[parent] = pk)

\* The step just taken was a status-change request that the handler accepted:
\* it answered without an error and, for the web view, the requested status
\* was a new one.
AcceptedStatusChange ==
    /\ response'.op \in StatusOps
    /\ response'.error = ""
    /\ response'.op = "update_shipment_status" =>
          /\ response'.new \notin {"", NULL}
          /\ response'.new # shipments[response'.pk].status

AppendsOne(history, parent, pk, status) ==
    /\ Len(history') = Len(history) + 1
    /\ SubSeq(history', 1, Len(history)) = history
    /\ history'[Len(history')][parent] = pk
    /\ history'[Len(history')].status = status

\* C3: every accepted status change (web update_shipment_status, API
\* update_status, either tracking webhook, approve) leaves the parent's status
\* field at the new status and appends exactly one history record, which
\* belongs to that parent and carries that status; the other history table is
\* left alone.
C3_AcceptedChangeSetsStatusAndAppendsOne ==
    [][AcceptedStatusChange =>
        LET pk == response'.pk
            new == response'.new
        IN  IF response'.kind = "shipment"
            THEN /\ shipments'[pk].status = new
                 /\ AppendsOne(shipment_history, "shipment", pk, new)
                 /\ UNCHANGED consignment_history
            ELSE /\ consignments'[pk].status = new
                 /\ AppendsOne(consignment_history, "consignment", pk, new)
                 /\ UNCHANGED shipment_history]_vars

\* C3 witness: a tracking webhook moved a consignment to a new status, and the
\* newest consignment history record is that consignment's, with that status.
C3_Witness ==
    /\ response.op = "TrackingWebhookView.post"
    /\ response.kind = "consignment"
    /\ response.error = ""
    /\ consignments[response.pk].status = "in_transit"
    /\ Len(consignment_history) >= 2
    /\ consignment_history[Len(consignment_history)] =
          ConsignmentHistoryRow(response.pk, "in_transit", "", "")

\* C4: status update and history append are one atomic unit: no step of a
\* status-change operation, failed or not, changes a row's status without
\* storing the history record of that status for that row.
C4_StatusAndHistoryAreAtomic ==
    [][response'.op \in StatusOps =>
        /\ \A pk \in DOMAIN shipments :
              shipments'[pk].status # shipments[pk].status =>
                  AppendsOne(shipment_history, "shipment", pk, shipments'[pk].status)
        /\ \A pk \in DOMAIN consignments :
              consignments'[pk].status # consignments[pk].status =>
                  AppendsOne(consignment_history, "consignment", pk,
                             consignments'[pk].status)]_vars

\* The record create_shipment writes when the shipment is created.
IsCreationRecord(h) == h.description = "Shipment created successfully"
ChangeRecords(history, parent, pk) ==
    Len(SelectSeq(history, LAMBDA h : h[parent] = pk /\ ~IsCreationRecord(h)))

\* C5: for every shipment and consignment the number of its history records
\* (the record written at creation aside) equals the number of status changes
\* applied to it.
C5_HistoryCountEqualsChangesApplied ==
    /\ \A pk \in DOMAIN shipments :
          ChangeRecords(shipment_history, "shipment", pk) = Applied("shipment", pk)
    /\ \A pk \in DOMAIN consignments :
          ChangeRecords(consignment_history, "consignment", pk) = Applied("consignment", pk)

\* C1: in every state every stored consignment's total_charges is the sum of
\* its five charge fields, whatever the client sent as total_charges.
C1_TotalChargesIsSumOfCharges ==
    \A pk \in DOMAIN consignments :
        consignments[pk].total_charges = SumCharges(consignments[pk])

\* C1 witness: a consignment created with freight and other charges (and a
\* total_charges of 0.01 in the request), then edited with handling, insurance
\* and customs charges, holds the sum of the five.
C1_Witness ==
    /\ response.op = "ConsignmentViewSet.update"
    /\ response.error = ""
    /\ consignments[response.pk].freight_charges = 10000
    /\ consignments[response.pk].handling_charges = 500
    /\ consignments[response.pk].total_charges = 10950

\* C2: in every state every stored shipment's total_cost is
\* shipping_cost + insurance_cost + tax.
C2_TotalCostIsSumOfCosts ==
    \A pk \in DOMAIN shipments :
        shipments[pk].total_cost =
            shipments[pk].shipping_cost + shipments[pk].insurance_cost + shipments[pk].tax

ShipmentStatusOps ==
    {"update_shipment_status", "ShipmentViewSet.update_status", "webhook_update",
     "TrackingWebhookView.post"}

\* C6: whatever state s a shipment is in, a request to any of the four
\* shipment status entry points for any of the nine states t is answered
\* without an error and leaves the shipment in state t.
C6_EveryTransitionAccepted ==
    [][(/\ response'.op \in ShipmentStatusOps
        /\ response'.pk \in DOMAIN shipments
        /\ shipments[response'.pk].status \in SHIPMENT_STATUS_CHOICES
        /\ response'.new \in SHIPMENT_STATUS_CHOICES)
       => /\ response'.error = ""
          /\ shipments'[response'.pk].status = response'.new]_vars

\* C6 witness: the web view took a delivered shipment back to pending.
C6_Witness ==
    /\ response.op = "update_shipment_status"
    /\ response.error = ""
    /\ response.new = "pending"
    /\ shipments[response.pk].status = "pending"
    /\ Len(shipment_history) = 2
    /\ shipment_history[1].status = "delivered"
    /\ shipment_history[2].status = "pending"

ApproveRequestBy(user_types) ==
    /\ response'.op = "ConsignmentViewSet.approve"
    /\ requester' \in Users
    /\ user_type(requester') \in user_types

\* C7 as stated: approve() by a user who is neither staff nor admin, on a
\* stored consignment, is answered 403 and changes neither the consignment nor
\* its history.
C7_NonStaffApproveIs403 ==
    [][(ApproveRequestBy({"customer", "driver"}) /\ response'.pk \in DOMAIN consignments)
       => /\ response'.code = 403
          /\ UNCHANGED <<consignments, consignment_history>>]_vars

\* C7 amended: approve() by a user who is neither staff nor admin is answered
\* 403 when the user owns the consignment and 404 when not (the consignment is
\* outside the user's queryset), and changes neither the consignments nor
\* their history.
C7_NonStaffApproveRejected ==
    [][ApproveRequestBy({"customer", "driver"})
       => /\ response'.code =
                 IF /\ response'.pk \in DOMAIN consignments
                    /\ consignments[response'.pk].user = requester'
                 THEN 403 ELSE 404
          /\ UNCHANGED <<consignments, consignment_history>>]_vars

\* C7 witness: a driver asked to approve a customer's consignment and got 404;
\* the consignment is not approved.
C7_Witness ==
    /\ response.op = "ConsignmentViewSet.approve"
    /\ requester = "bob"
    /\ response.code = 404
    /\ response.pk \in DOMAIN consignments
    /\ consignments[response.pk].user = "alice"
    /\ consignments[response.pk].approved_by = NULL
    /\ consignment_history = <<>>

\* C8: approve() by any staff or admin user on a stored consignment, whatever
\* its state, succeeds: status 'approved', approved_by the requester,
\* approved_at set, one 'approved' history record appended.
C8_StaffApproveSucceeds ==
    [][(ApproveRequestBy({"staff", "admin"}) /\ response'.pk \in DOMAIN consignments)
       => LET pk == response'.pk IN
          /\ response'.error = ""
          /\ consignments'[pk].status = "approved"
          /\ consignments'[pk].approved_by = requester'
          /\ consignments'[pk].approved_at # NO_TIME
          /\ AppendsOne(consignment_history, "consignment", pk, "approved")]_vars

Unchanged(table, column) ==
    \A pk \in DOMAIN table :
        pk \in DOMAIN table' /\ table'[pk][column] = table[pk][column]

\* C9: every stored row has its identifier, and no step of any operation
\* changes the tracking_number, consignment_number or payment_id of a stored
\* row.
C9_IdentifiersNeverChange ==
    /\ [](/\ \A pk \in DOMAIN shipments : shipments[pk].tracking_number # EMPTY
          /\ \A pk \in DOMAIN consignments : consignments[pk].consignment_number # EMPTY
          /\ \A pk \in DOMAIN payments : payments[pk].payment_id # EMPTY)
    /\ [][/\ Unchanged(shipments, "tracking_number")
          /\ Unchanged(consignments, "consignment_number")
          /\ Unchanged(payments, "payment_id")]_vars

\* C9 witness: a shipment numbered from draw A was moved to delivered by the
\* web view and a consignment numbered from draw A was approved, both saved
\* again while uuid4() would draw D; both still have their numbers from A.
C9_Witness ==
    /\ response.op = "update_shipment_status"
    /\ response.error = ""
    /\ shipments[response.pk].tracking_number = SH_A
    /\ shipments[response.pk].status = "delivered"
    /\ \E pk \in DOMAIN consignments :
          /\ consignments[pk].consignment_number = CN_A
          /\ consignments[pk].status = "approved"

CreateOps ==
    {"create_shipment", "ShipmentViewSet.create", "ConsignmentViewSet.create", "Payment.save"}

NoSharedIdentifier(table, column) ==
    \A j, k \in DOMAIN table : table[j][column] = table[k][column] => j = k

\* A create step stored one new row in table, with an identifier no stored row
\* had, and left the stored rows as they were.
StoresFresh(table, column) ==
    /\ DOMAIN table' = DOMAIN table \cup {response'.pk}
    /\ response'.pk \notin DOMAIN table
    /\ \A k \in DOMAIN table :
          table'[k] = table[k] /\ table[k][column] # table'[response'.pk][column]

\* C10: a create either stores a row whose generated identifier no stored row
\* of that kind has, or fails with the storage layer's uniqueness error and
\* leaves every table as it was; so no two rows of a kind share an identifier.
C10_CollisionIsUniquenessError ==
    /\ [](/\ NoSharedIdentifier(shipments, "tracking_number")
          /\ NoSharedIdentifier(consignments, "consignment_number")
          /\ NoSharedIdentifier(payments, "payment_id"))
    /\ [][response'.op \in CreateOps =>
            IF response'.error = ""
            THEN CASE response'.kind = "shipment" -> StoresFresh(shipments, "tracking_number")
                   [] response'.kind = "consignment" ->
                          StoresFresh(consignments, "consignment_number")
                   [] response'.kind = "payment" -> StoresFresh(payments, "payment_id")
            ELSE /\ response'.error = "IntegrityError"
                 /\ UNCHANGED <<shipments, shipment_history, consignments,
                                consignment_history, payments>>]_vars

\* C10 witness: with the shipment numbered from draw A stored, an API create
\* that drew the same ten digits failed with the uniqueness error, and that
\* shipment is still the only one.
C10_Witness ==
    /\ response.op = "ShipmentViewSet.create"
    /\ response.error = "IntegrityError"
    /\ DOMAIN shipments = {1}
    /\ shipments[1].tracking_number = SH_A

RateOps == {"CalculateRateView.post", "calculate_rate"}

\* What a logged rate request asked for, with the handler's defaults.
AskedWeight(call) == float(Get(call.request, "weight", Num(0)))
AskedDeclaredValue(call) == float(Get(call.request, "declared_value", Num(0)))
AskedService(call) == Get(call.request, "service_type", Str("standard"))
AskedFrom(call) == Get(call.request, "from_country", Str("US"))
AskedTo(call) == Get(call.request, "to_country", Str("US"))

\* A logged call to the API view whose numbers are finite numbers.
ApiCallWithNumbers(call) ==
    /\ call.op = "CalculateRateView.post"
    /\ IsFinite(AskedWeight(call))
    /\ IsFinite(AskedDeclaredValue(call))

Tenths(x) == x.v \div (FLOAT_UNIT \div 10)

\* C11: every rate calculation with finite numbers and a service type of the
\* table answers total = (10.0 + weight * 2.0) * distance_multiplier *
\* service_multiplier + insurance, the distance multiplier being 1.0 when
\* origin and destination are equal and 1.5 when not.
C11_TotalFollowsThePolicy ==
    \A i \in DOMAIN rate_calls :
        LET call == rate_calls[i]
            body == call.response.body
            distance == IF AskedFrom(call) = AskedTo(call) THEN 10 ELSE 15
        IN  ApiCallWithNumbers(call) /\ AskedService(call).type = "string" =>
                /\ call.response.code = 200
                /\ body.success
                /\ (body.total.v - body.insurance.v) * 100 =
                       (10 * FLOAT_UNIT + 2 * AskedWeight(call).v)
                           * distance * Tenths(body.service_multiplier)

\* C11 witness: the two worked examples, (5, standard, US, US, 0) giving 20.0
\* and (5, express, US, CA, 1000) giving 55.0, are the last two calculations.
C11_Witness ==
    /\ Len(rate_calls) = 2
    /\ rate_calls[1].request =
           [weight |-> Dollars(5), service_type |-> Str("standard"),
            from_country |-> Str("US"), to_country |-> Str("US"),
            declared_value |-> Dollars(0)]
    /\ rate_calls[1].response.body.total = Decimal(20, 0)
    /\ rate_calls[2].request =
           [weight |-> Dollars(5), service_type |-> Str("express"),
            from_country |-> Str("US"), to_country |-> Str("CA"),
            declared_value |-> Dollars(1000)]
    /\ rate_calls[2].response.body.total = Decimal(55, 0)

\* C14: of two rate calculations for the same service type, origin,
\* destination and declared value, with weights 0 <= w1 <= w2, the one for w2
\* answers a total that is not smaller.
C14_MonotoneInWeight ==
    \A i, j \in DOMAIN rate_calls :
        LET a == rate_calls[i]
            b == rate_calls[j]
        IN  (/\ ApiCallWithNumbers(a) /\ ApiCallWithNumbers(b)
             /\ AskedService(a) = AskedService(b)
             /\ AskedFrom(a) = AskedFrom(b) /\ AskedTo(a) = AskedTo(b)
             /\ AskedDeclaredValue(a) = AskedDeclaredValue(b)
             /\ 0 <= AskedWeight(a).v /\ AskedWeight(a).v <= AskedWeight(b).v)
            => /\ a.response.code = 200 /\ b.response.code = 200
               /\ a.response.body.total.v <= b.response.body.total.v

\* C14 witness: express US to CA with a declared value of 1000 was calculated
\* for 5 kg and then for "12.5" kg, and the second total is the larger.
C14_Witness ==
    /\ Len(rate_calls) = 2
    /\ rate_calls[1].request # <<>>
    /\ rate_calls[2].request # <<>>
    /\ rate_calls[1].request.weight = Dollars(5)
    /\ rate_calls[2].request.weight = TEXT_12_5
    /\ \A k \in {"service_type", "from_country", "to_country", "declared_value"} :
          rate_calls[1].request[k] = rate_calls[2].request[k]
    /\ rate_calls[2].request.service_type = Str("express")
    /\ rate_calls[2].request.to_country = Str("CA")
    /\ rate_calls[1].response.body.total = Decimal(55, 0)
    /\ rate_calls[2].response.body.total = Decimal(88, 75)

\* C15: two rate calculations with the same request get the same response,
\* whatever was stored when each was made, and a rate calculation leaves
\* every table as it was.
C15_DeterministicWithoutSideEffects ==
    /\ [](\A i, j \in DOMAIN rate_calls :
              (rate_calls[i].op = rate_calls[j].op
                   /\ rate_calls[i].request = rate_calls[j].request)
              => rate_calls[i].response = rate_calls[j].response)
    /\ [][response'.op \in RateOps =>
              UNCHANGED <<shipments, shipment_history, consignments, consignment_history,
                          payments, sqlite_sequence>>]_vars

\* C15 witness: the same request was calculated with no shipment stored and
\* again with one stored, and answered alike.
C15_Witness ==
    /\ Len(rate_calls) = 2
    /\ rate_calls[1].stored = <<>>
    /\ rate_calls[2].stored # <<>>
    /\ rate_calls[1].request = rate_calls[2].request
    /\ rate_calls[1].request # <<>>
    /\ rate_calls[1].response = rate_calls[2].response
    /\ rate_calls[2].response.code = 200
    /\ response = rate_calls[2].response

\* The multiplier the rate policy gives a service type.
PolicyMultiplier(service_type) ==
    CASE service_type = Str("standard") -> Decimal(1, 0)
      [] service_type = Str("express") -> Decimal(1, 50)
      [] service_type = Str("overnight") -> Decimal(2, 0)
      [] service_type = Str("same_day") -> Decimal(2, 50)
      [] OTHER -> Decimal(1, 0)

\* C12 as stated: every rate calculation with finite numbers succeeds, with the
\* multiplier 1.0 / 1.5 / 2.0 / 2.5 for standard / express / overnight /
\* same_day and 1.0 for every other service_type value.
C12_MultiplierForEveryValue ==
    \A i \in DOMAIN rate_calls :
        LET call == rate_calls[i] IN
        ApiCallWithNumbers(call) =>
            /\ call.response.code = 200
            /\ call.response.body.service_multiplier = PolicyMultiplier(AskedService(call))

\* C12 amended: the multiplier is 1.0 / 1.5 / 2.0 / 2.5 for standard / express
\* / overnight / same_day and 1.0 for every other service_type that is a JSON
\* string, number, boolean or null, without an error; a service_type that is
\* a JSON array or object cannot be looked up (TypeError) and the calculation
\* answers a structured failure with status 400.
C12_MultiplierForEveryHashableValue ==
    \A i \in DOMAIN rate_calls :
        LET call == rate_calls[i] IN
        ApiCallWithNumbers(call) =>
            IF AskedService(call).type \in {"array", "object"}
            THEN /\ call.response.code = 400
                 /\ call.response.body = [success |-> FALSE, error |-> "TypeError"]
            ELSE /\ call.response.code = 200
                 /\ call.response.body.service_multiplier =
                        PolicyMultiplier(AskedService(call))

\* C12 witness: a calculation for the unknown service type "drone" was answered
\* with the multiplier 1.0, and one for a service_type that is an array with
\* the structured failure.
C12_Witness ==
    /\ Len(rate_calls) = 2
    /\ AskedService(rate_calls[1]) = Str("drone")
    /\ rate_calls[1].response.code = 200
    /\ rate_calls[1].response.body.service_multiplier = Decimal(1, 0)
    /\ AskedService(rate_calls[2]) = JSON_ARRAY
    /\ rate_calls[2].response.code = 400
    /\ ~rate_calls[2].response.body.success

NotANumber(x) == ~IsFinite(float(x))

\* C16: a rate calculation whose weight or declared_value is not a valid
\* number is answered with a structured failure: a body with success = false
\* and an error message.
C16_InvalidNumberIsStructuredFailure ==
    \A i \in DOMAIN rate_calls :
        LET call == rate_calls[i]
            body == call.response.body
        IN  (/\ call.response.error # "LoginRequired"
             /\ \/ NotANumber(Get(call.request, "weight", Num(0)))
                \/ /\ call.op = "CalculateRateView.post"
                   /\ NotANumber(Get(call.request, "declared_value", Num(0))))
            => /\ DOMAIN body = {"success", "error"}
               /\ ~body.success
               /\ body.error # ""

(***************************************************************************)
(* SpecCascade: shipments created by the web view and consignments by the  *)
(* API, moved by the API and the webhook, and deleted through the API by   *)
(* their owner, by somebody else and by nobody.                            *)
(***************************************************************************)
NextCascade ==
    \/ \E u \in {UUID_A, UUID_D} :
           create_shipment("alice", 1, "standard", "US", "US", 0, 0, u)
    \/ ConsignmentViewSet_create("bob", <<>>, UUID_A)
    \/ \E pk \in 1..MaxRows :
           ShipmentViewSet_update_status("alice", pk, [status |-> "in_transit"], UUID_A)
    \/ \E n \in {SH_D, CN_A} :
           webhook_update([tracking_number |-> n, status |-> "delivered",
                           location |-> "Lagos"], UUID_A)
    \/ \E user \in {"alice", "bob", Anonymous}, pk \in 1..MaxRows :
           ShipmentViewSet_destroy(user, pk)
    \/ \E user \in {"alice", "bob"}, pk \in 1..MaxRows :
           ConsignmentViewSet_destroy(user, pk)

SpecCascade == Init /\ [][NextCascade]_vars

\* The records of history whose parent (key fk) is in the table.
Surviving(history, fk, table) == SelectSeq(history, LAMBDA h : h[fk] \in DOMAIN table)

IsPrefix(a, b) == Len(a) <= Len(b) /\ SubSeq(b, 1, Len(a)) = a

\* C17: history is append-only: in every step, the history records whose
\* parent still exists after the step are found again, unchanged and in the
\* same (timestamp) order, before any record the step appended.
C17_HistoryIsAppendOnly ==
    [][/\ IsPrefix(Surviving(shipment_history, "shipment", shipments'), shipment_history')
       /\ IsPrefix(Surviving(consignment_history, "consignment", consignments'),
                   consignment_history')]_vars

\* C17 witness: shipment 2 was deleted, and afterwards shipment 1 was moved:
\* its creation record is still the first, before the record of the move.
C17_Witness ==
    /\ DOMAIN shipments = {1}
    /\ sqlite_sequence.shipment = 2
    /\ response.op = "ShipmentViewSet.update_status"
    /\ response.code = 200
    /\ shipment_history =
           <<ShipmentHistoryRow(1, "pending", "", "Shipment created successfully"),
             ShipmentHistoryRow(1, "in_transit", "", "Status updated via API")>>

DestroyOps == {"ShipmentViewSet.destroy", "ConsignmentViewSet.destroy"}

\* C18: a delete that is carried out removes the history records of the
\* deleted shipment or consignment and no others, and in every state every
\* history record refers to a stored parent.
C18_DeleteCascadesToOwnHistoryOnly ==
    /\ [](/\ \A i \in DOMAIN shipment_history :
                shipment_history[i].shipment \in DOMAIN shipments
          /\ \A i \in DOMAIN consignment_history :
                consignment_history[i].consignment \in DOMAIN consignments)
    /\ [][response'.op \in DestroyOps /\ response'.code = 204 =>
            /\ response'.kind = "shipment" =>
                /\ response'.pk \in DOMAIN shipments
                /\ DOMAIN shipments' = DOMAIN shipments \ {response'.pk}
                /\ shipment_history' =
                       SelectSeq(shipment_history, LAMBDA h : h.shipment # response'.pk)
                /\ consignment_history' = consignment_history
            /\ response'.kind = "consignment" =>
                /\ response'.pk \in DOMAIN consignments
                /\ DOMAIN consignments' = DOMAIN consignments \ {response'.pk}
                /\ consignment_history' =
                       SelectSeq(consignment_history,
                                 LAMBDA h : h.consignment # response'.pk)
                /\ shipment_history' = shipment_history]_vars

\* C18 witness: shipment 1, which had a history record, was deleted by its
\* owner; the record of shipment 2 is the only one left.
C18_Witness ==
    /\ response.op = "ShipmentViewSet.destroy"
    /\ response.code = 204
    /\ response.pk = 1
    /\ DOMAIN shipments = {2}
    /\ shipment_history =
           <<ShipmentHistoryRow(2, "pending", "", "Shipment created successfully")>>

(***************************************************************************)
(* SpecLookup: one shipment and one consignment, looked up and moved by    *)
(* the webhooks under their own identifiers, under identifiers nothing     *)
(* has, and (the webhooks) under no identifier at all.                     *)
(***************************************************************************)
LookupIds == {SH_A, CN_A, SH_D, CN_D}
LookupWebhookData ==
    {[tracking_number |-> n, status |-> st] :
        n \in LookupIds, st \in {"in_transit", "delivered"}}
    \cup {[status |-> "delivered"]}

NextLookup ==
    \/ create_shipment("alice", 1, "standard", "US", "US", 0, 0, UUID_A)
    \/ ConsignmentViewSet_create("bob", <<>>, UUID_A)
    \/ \E n \in LookupIds : tracking_api(n)
    \/ \E n \in LookupIds : TrackShipmentView_get(n)
    \/ \E n \in LookupIds : TrackingViewSet_retrieve(n)
    \/ \E data \in LookupWebhookData : webhook_update(data, UUID_A)
    \/ \E data \in LookupWebhookData : TrackingWebhookView_post(data, UUID_A)

SpecLookup == Init /\ [][NextLookup]_vars

\* No shipment has n as its tracking number and no consignment as its
\* consignment number.
MatchesNeither(n) ==
    /\ \A k \in DOMAIN shipments : shipments[k].tracking_number # n
    /\ \A k \in DOMAIN consignments : consignments[k].consignment_number # n

NotFound ==
    /\ response'.code = 404
    /\ response'.error = "Tracking number not found"
    /\ UNCHANGED <<shipments, shipment_history, consignments, consignment_history>>

NextReports ==
    \/ \E weight \in {1, 2}, u \in {UUID_A, UUID_D} :
           create_shipment("alice", weight, "standard", "US", "US", 0, 0, u)
    \/ \E amount \in {500, 701}, u \in {UUID_A, UUID_D} : Payment_create("alice", amount, u)
    \/ \E pk \in 1..MaxRows, st \in {"completed", "refunded"} :
           PaymentViewSet_update("alice", pk, [status |-> st], UUID_A)
    \/ \E user \in {"alice", "bob", Anonymous} : ShipmentViewSet_stats(user)
    \/ \E user \in {"alice", "sam"} : ShipmentReportView_get(user)
    \/ \E user \in {"ada", "alice"} : FinancialReportView_get(user)
    \/ FinancialReportView_get_condition
    \/ FinancialReportView_get_division

SpecReports == Init /\ [][NextReports]_vars

AggregateOps == {"ShipmentViewSet.stats", "ShipmentReportView.get", "FinancialReportView.get"}

\* C20: every aggregate or report that is answered to a user allowed to ask
\* succeeds without a division error, with average 0 when the record set is
\* empty and the sum divided by the count when it is not.
C20_AverageIsZeroOrSumByCount ==
    response.op \in AggregateOps /\ response.code # 403 =>
        /\ response.code = 200
        /\ response.error # "ZeroDivisionError"
        /\ LET body == response.body IN
           IF body.count = 0
           THEN body.average = 0
           ELSE /\ body.average * body.count <= body.sum * AVERAGE_UNIT
                /\ body.sum * AVERAGE_UNIT < (body.average + 1) * body.count

(***************************************************************************)
(* SpecStatusValues: a shipment and a consignment whose status is written  *)
(* by every entry point, with values of the status choices and with        *)
(* values outside them.                                                    *)
(***************************************************************************)
NextStatusValues ==
    \/ create_shipment("alice", 1, "standard", "US", "US", 0, 0, UUID_A)
    \/ \E data \in {<<>>, [status |-> "approved"]} :
           ConsignmentViewSet_create("sam", data, UUID_A)
    \/ \E n \in {SH_A, CN_A}, st \in {"in_transit", "approved", "lost"} :
           webhook_update([tracking_number |-> n, status |-> st], UUID_A)
    \/ \E n \in {SH_A, CN_A}, st \in {"in_transit", "approved", "lost"} :
           TrackingWebhookView_post([tracking_number |-> n, status |-> st], UUID_A)
    \/ \E new_status \in {"delivered", "lost"} :
           update_shipment_status("sam", SH_A, new_status, "", "", UUID_A)
    \/ \E st \in {"delivered", "lost"} :
           ShipmentViewSet_update_status("alice", 1, [status |-> st], UUID_A)
    \/ ConsignmentViewSet_update("sam", 1, [status |-> "approved"], UUID_A)
    \/ ConsignmentViewSet_approve("sam", 1, UUID_A)

SpecStatusValues == Init /\ [][NextStatusValues]_vars

\* C21: in every state the status of every shipment is one of the nine
\* status choices.
C21_StatusIsOneOfNine ==
    \A k \in DOMAIN shipments : shipments[k].status \in SHIPMENT_STATUS_CHOICES

\* C26: in every state a consignment whose status is approved has approved_by
\* and approved_at set.
C26_ApprovedHasApprover ==
    \A k \in DOMAIN consignments :
        consignments[k].status = "approved" =>
            /\ consignments[k].approved_by # NULL
            /\ consignments[k].approved_at # NO_TIME

\* C27: no request made by a customer, a driver or an unauthenticated caller
\* changes the status of a stored shipment or appends a history record to
\* it: every step that does is a request of a staff or admin user.
C27_OnlyStaffChangesShipmentStatus ==
    [][(\/ \E k \in DOMAIN shipments \cap DOMAIN shipments' :
              shipments'[k].status # shipments[k].status
        \/ /\ Len(shipment_history') > Len(shipment_history)
           /\ shipment_history'[Len(shipment_history')].shipment \in DOMAIN shipments)
       => /\ requester' \in Users
          /\ user_type(requester') \in {"admin", "staff"}]_vars

\* C29: right after a shipment was created, by the web view or by the API, its
\* status is pending and it has exactly one history record, of status pending.
C29_CreatedPendingWithOneRecord ==
    (/\ response.op \in {"create_shipment", "ShipmentViewSet.create"}
     /\ response.error = ""
     /\ response.pk \in DOMAIN shipments)
    => /\ shipments[response.pk].status = "pending"
       /\ LET records == SelectSeq(shipment_history,
                                   LAMBDA h : h.shipment = response.pk)
          IN  /\ Len(records) = 1
              /\ records[1].status = "pending"

(***************************************************************************)
(* SpecOwnership: a shipment and a payment of a customer and a consignment *)
(* of a staff user, and every object-level operation of the three viewsets *)
(* asked for by the owner, by another customer or driver, by staff and by  *)
(* nobody.                                                                 *)
(***************************************************************************)
OwnershipRequesters == {"alice", "bob", "sam", Anonymous}

NextOwnership ==
    \/ ShipmentViewSet_create("alice", <<>>, UUID_A)
    \/ ConsignmentViewSet_create("sam", <<>>, UUID_A)
    \/ Payment_create("alice", 500, UUID_A)
    \/ \E user \in OwnershipRequesters,
          op \in {"ShipmentViewSet.retrieve", "ShipmentViewSet.history"} :
           ModelViewSet_read(op, "shipment", user, 1)
    \/ \E user \in OwnershipRequesters :
           ModelViewSet_read("ConsignmentViewSet.retrieve", "consignment", user, 1)
    \/ \E user \in OwnershipRequesters :
           ModelViewSet_read("PaymentViewSet.retrieve", "payment", user, 1)
    \/ \E user \in OwnershipRequesters :
           ShipmentViewSet_update(user, 1, [status |-> "delivered"], UUID_A)
    \/ \E user \in OwnershipRequesters :
           ShipmentViewSet_update_status(user, 1, [status |-> "in_transit"], UUID_A)
    \/ \E user \in OwnershipRequesters : ShipmentViewSet_destroy(user, 1)
    \/ \E user \in OwnershipRequesters :
           ConsignmentViewSet_update(user, 1, [status |-> "on_hold"], UUID_A)
    \/ \E user \in OwnershipRequesters : ConsignmentViewSet_approve(user, 1, UUID_A)
    \/ \E user \in OwnershipRequesters : ConsignmentViewSet_destroy(user, 1)
    \/ \E user \in OwnershipRequesters :
           PaymentViewSet_update(user, 1, [status |-> "completed"], UUID_A)
    \/ \E user \in OwnershipRequesters : PaymentViewSet_process(user, 1, UUID_A)
    \/ \E user \in OwnershipRequesters : PaymentViewSet_destroy(user, 1)

SpecOwnership == Init /\ [][NextOwnership]_vars

ObjectOps ==
    {"ShipmentViewSet.retrieve", "ShipmentViewSet.history", "ShipmentViewSet.update",
     "ShipmentViewSet.update_status", "ShipmentViewSet.destroy",
     "ConsignmentViewSet.retrieve", "ConsignmentViewSet.update",
     "ConsignmentViewSet.approve", "ConsignmentViewSet.destroy",
     "PaymentViewSet.retrieve", "PaymentViewSet.update", "PaymentViewSet.process",
     "PaymentViewSet.destroy"}

\* C23: an object-level operation of the three viewsets that is asked for by
\* anybody but the object's user is denied (403 or 404) and leaves every
\* stored object and history record unchanged; so an operation that succeeds
\* was asked for by the object's user.
C23_OnlyTheOwnerSucceeds ==
    [][response'.op \in ObjectOps =>
          LET table == Table(response'.kind)
              pk == response'.pk
          IN  (pk \in DOMAIN table /\ table[pk].user = requester')
              \/ /\ response'.code \in {403, 404}
                 /\ UNCHANGED <<shipments, shipment_history, consignments,
                                consignment_history, payments>>]_vars

\* C23 witness: the staff user asked to update the shipment of a customer and
\* was denied with 403; the shipment is still pending.
C23_Witness ==
    /\ response.op = "ShipmentViewSet.update"
    /\ response.code = 403
    /\ requester = "sam"
    /\ DOMAIN shipments = {1}
    /\ shipments[1].user = "alice"
    /\ shipments[1].status = "pending"

(***************************************************************************)
(* SpecIdentifierShape: shipments, consignments and payments created with  *)
(* draws of uuid4 of every length: uuid4 sets the version and variant bits *)
(* of the 128-bit value, so the smallest draw has 24 decimal digits and    *)
(* the largest 39.                                                         *)
(***************************************************************************)
\* 00000000-0000-4000-8000-000000000000
UUID_MIN ==
    <<"3", "0", "2", "2", "4", "0", "6", "7", "8", "2", "7", "5", "6",
      "9", "4", "1", "4", "8", "4", "5", "2", "3", "5", "2">>
\* ffffffff-ffff-4fff-bfff-ffffffffffff
UUID_MAX ==
    <<"3", "4", "0", "2", "8", "2", "3", "6", "6", "9", "2", "0", "9",
      "3", "7", "6", "3", "2", "3", "2", "2", "2", "6", "1", "9", "3",
      "6", "3", "5", "5", "7", "8", "3", "2", "1", "3", "0", "5", "5">>
ShapeDraws == {UUID_A, UUID_D, UUID_MIN, UUID_MAX}

NextIdentifierShape ==
    \/ \E u \in ShapeDraws : create_shipment("alice", 1, "standard", "US", "US", 0, 0, u)
    \/ \E u \in ShapeDraws : ShipmentViewSet_create("alice", <<>>, u)
    \/ \E u \in ShapeDraws : ConsignmentViewSet_create("alice", <<>>, u)
    \/ \E u \in ShapeDraws : Payment_create("alice", 500, u)

SpecIdentifierShape == Init /\ [][NextIdentifierShape]_vars

HasShape(identifier, prefix, length) ==
    /\ Len(identifier) = Len(prefix) + length
    /\ SubSeq(identifier, 1, Len(prefix)) = prefix
    /\ \A i \in Len(prefix) + 1..Len(identifier) : IsDigit(identifier[i])

\* C22: every generated identifier has its fixed prefix and length: a tracking
\* number is SH and 10 characters, a consignment number CN and 12, a payment
\* id PAY and 12.
C22_IdentifiersHaveFixedShape ==
    /\ \A k \in DOMAIN shipments :
          HasShape(shipments[k].tracking_number, <<"S", "H">>, 10)
    /\ \A k \in DOMAIN consignments :
          HasShape(consignments[k].consignment_number, <<"C", "N">>, 12)
    /\ \A k \in DOMAIN payments :
          HasShape(payments[k].payment_id, <<"P", "A", "Y">>, 12)

\* C22 witness: a shipment created with the smallest draw and a payment
\* created with the largest are stored under SH3022406782 and PAY340282366920.
C22_Witness ==
    /\ DOMAIN shipments = {1}
    /\ shipments[1].tracking_number = <<"S", "H">> \o Slice(UUID_MIN, 10)
    /\ Len(shipments[1].tracking_number) = 12
    /\ DOMAIN payments = {1}
    /\ payments[1].payment_id = <<"P", "A", "Y">> \o Slice(UUID_MAX, 12)
    /\ Len(payments[1].payment_id) = 15

\* C28: a POST to the web view update_shipment_status by a logged-in user for
\* a stored shipment, whose status is empty or the shipment's current status,
\* changes no shipment and appends no history record.
C28_EmptyOrSameStatusIsNoOp ==
    [][\A user \in {"sam"}, new_status \in {"", "delivered"} :
          (/\ \E k \in DOMAIN shipments :
                  /\ shipments[k].tracking_number = SH_A
                  /\ new_status \in {"", shipments[k].status}
           /\ update_shipment_status(user, SH_A, new_status, "", "", UUID_A))
          => UNCHANGED <<shipments, shipment_history>>]_vars

\* C28 witness: the shipment had become delivered without a history record
\* (an API edit, or a status update whose record could not be stored), and
\* then the web view was asked for delivered again: the shipment still has
\* its creation record only.
C28_Witness ==
    /\ response.op = "update_shipment_status"
    /\ response.code = 302
    /\ response.new = "delivered"
    /\ DOMAIN shipments = {1}
    /\ shipments[1].status = "delivered"
    /\ shipment_history =
           <<ShipmentHistoryRow(1, "pending", "", "Shipment created successfully")>>

(***************************************************************************)
(* SpecProcess: a payment put into each of its six states, with and        *)
(* without paid_at, by its owner, and processed by its owner and by        *)
(* others.                                                                 *)
(***************************************************************************)
NextProcess ==
    \/ \E amount \in {500, 701}, u \in {UUID_A, UUID_D} :
           Payment_create("alice", amount, u)
    \/ \E st \in PAYMENT_STATUS_CHOICES :
           PaymentViewSet_update("alice", 1, [status |-> st], UUID_D)
    \/ PaymentViewSet_update("alice", 1, [status |-> "completed", paid_at |-> 1], UUID_D)
    \/ \E user \in {"alice", "sam", Anonymous} : PaymentViewSet_process(user, 1, UUID_D)

SpecProcess == Init /\ [][NextProcess]_vars

\* C30: PaymentViewSet.process asked for by the payment's owner sets the status
\* to processing whatever it was, and leaves payment_id, amount, user and
\* paid_at, and every other payment, as they were.
C30_ProcessSetsProcessingOnly ==
    [][\A pk \in DOMAIN payments, st \in PAYMENT_STATUS_CHOICES :
          (/\ payments[pk].status = st
           /\ PaymentViewSet_process(payments[pk].user, pk, UUID_D))
          => /\ response'.code = 200
             /\ payments' = [payments EXCEPT ![pk] = [@ EXCEPT !.status = "processing"]]
             /\ payments'[pk].status = "processing"
             /\ \A f \in {"payment_id", "amount", "user", "paid_at"} :
                    payments'[pk][f] = payments[pk][f]]_vars

\* C30 witness: a payment of 701 that had been completed, with paid_at set,
\* was processed: it is processing, with the same payment_id, amount, user
\* and paid_at.
C30_Witness ==
    /\ response.op = "PaymentViewSet.process"
    /\ response.code = 200
    /\ DOMAIN payments = {1}
    /\ payments[1] = [payment_id |-> PAY_A, user |-> "alice", status |-> "processing",
                      amount |-> 701, paid_at |-> 1]

(***************************************************************************)
(* SpecOverlap: a shipment and a consignment, the consignment approved by  *)
(* its staff owner, and tracking webhook requests for both served by two   *)
(* workers whose statements interleave.                                    *)
(***************************************************************************)
OverlapWebhookData ==
    {[tracking_number |-> n, status |-> st] :
        n \in {SH_A, CN_A, SH_D}, st \in {"in_transit", "delivered"}}

NextOverlap ==
    \/ ShipmentViewSet_create("alice", <<>>, UUID_A)
    \/ ConsignmentViewSet_create("sam", <<>>, UUID_A)
    \/ ConsignmentViewSet_approve("sam", 1, UUID_A)
    \/ \E w \in Workers, data \in OverlapWebhookData : webhook_update_first(w, data)
    \/ \E w \in Workers : webhook_update_save(w, UUID_A)
    \/ \E w \in Workers : webhook_update_create_history(w)

SpecOverlap == Init /\ [][NextOverlap]_vars

\* C24: once every request has completed, the most recent history record of
\* each shipment and consignment that has history carries the status stored
\* in the shipment or consignment.
C24_LastRecordIsTheStatus ==
    (\A w \in Workers : in_flight[w].pc = "idle") =>
        /\ \A k \in DOMAIN shipments :
              LET records == SelectSeq(shipment_history, LAMBDA h : h.shipment = k)
              IN  records # <<>> => records[Len(records)].status = shipments[k].status
        /\ \A k \in DOMAIN consignments :
              LET records == SelectSeq(consignment_history, LAMBDA h : h.consignment = k)
              IN  records # <<>> => records[Len(records)].status = consignments[k].status

\* C25: a consignment that has approved_by and approved_at set still has
\* both set after every step, whichever request the step belongs to.
C25_ApprovalIsKept ==
    [][\A k \in DOMAIN consignments \cap DOMAIN consignments' :
          (consignments[k].approved_by # NULL /\ consignments[k].approved_at # NO_TIME)
          => /\ consignments'[k].approved_by # NULL
             /\ consignments'[k].approved_at # NO_TIME]_vars
====
